---- MODULE Spec2Model ----
(***************************************************************************)
(* Tile grid, A* tile path search and path smoothing of starbound-web.     *)
(*                                                                         *)
(* Numbers.  The search adds the step costs 1 and 1.414 and the heuristic  *)
(* Math.sqrt(dx*dx + dy*dy) in double precision.  The model keeps every    *)
(* cost as an integer number of 10^-5 units: 1 is 100000, 1.414 is 141400  *)
(* and Math.sqrt is truncated to five decimals.  Tile coordinates are      *)
(* records [x, y] as in the source; a path is a sequence of them.          *)
(***************************************************************************)
EXTENDS Integers, Sequences, FiniteSets, TLC

\* Bounds of the checked instances.
MaxCols == 3
MaxRows == 3
MaxBlocked == 2

VARIABLES
    cols,        \* Grid.cols
    rows,        \* Grid.rows
    tiles,       \* Grid.tiles: <<x, y>> -> 0 (walkable) or 1 (blocked)
    pc,          \* "idle", "loop" (inside findPath's while loop) or "done" (findPath returned)
    start,       \* findPath argument (tile (0, 0) while no search runs)
    goal,        \* findPath argument (tile (0, 0) while no search runs)
    diagonal,    \* findPath argument (FALSE while no search runs)
    nodes,       \* the PathNode objects created by this search, by tile
    openList,    \* findPath's openList: the tiles of its PathNodes, in array order
    closedSet,   \* findPath's closedSet
    iterations,  \* findPath's iterations
    result,      \* findPath's return value: Null or Some(path)
    smoothed,    \* Some(the last value returned by smoothPath), Null before the first call
    startWorld,  \* findPixelPath argument (the point (0, 0) before the first call)
    goalWorld,   \* findPixelPath argument (the point (0, 0) before the first call)
    pixelPath,   \* Some(the last value returned by findPixelPath), Null before the first call
    simplified,  \* the last direct call of smoothPath or optimizePixelPath, Null before the first
    units,       \* game.units: the Unit objects, in array order
    updating,    \* the index of the unit the running frame updates next, 0 between frames
    frameTime,   \* the deltaTime of the running frame (0 between frames)
    frames,      \* the frames run so far
    commands,    \* the commands given so far
    called,      \* the last operation called on the units: its name, the indices of
                 \* the units it was called for and its two numbers (Null at first)
    cancelled    \* the indices of the units whose cancelMove() was called while they
                 \* lived and that were assigned no path, target or attack target since

vars == <<cols, rows, tiles, pc, start, goal, diagonal, nodes, openList,
          closedSet, iterations, result, smoothed, startWorld, goalWorld,
          pixelPath, simplified, units, updating, frameTime, frames, commands, called,
          cancelled>>

gridVars == <<cols, rows, tiles>>
searchVars == <<start, goal, diagonal, nodes, openList, closedSet, iterations, result>>
pixelVars == <<startWorld, goalWorld, pixelPath>>
loopVars == <<updating, frameTime, frames, commands, called, cancelled>>
worldVars == <<pixelVars, simplified, units, loopVars>>

\* A value that may be null is null (Null) or Some(v); Value gives v back.
Null == <<>>
Some(v) == <<v>>
Value(o) == o[1]

Tile(x, y) == [x |-> x, y |-> y]

Abs(n) == IF n < 0 THEN -n ELSE n
Max(a, b) == IF a >= b THEN a ELSE b

(***************************************************************************)
(* Grid                                                                    *)
(***************************************************************************)

\* The tile array the constructor builds: every tile walkable.
NewTiles(c, r) == [p \in (0..(c - 1)) \X (0..(r - 1)) |-> 0]

isValidTile(x, y) == x >= 0 /\ x < cols /\ y >= 0 /\ y < rows

\* this.tiles[y][x], which the source reads for valid tiles only.
TileAt(x, y) == tiles[<<x, y>>]

isWalkable(x, y) == IF ~isValidTile(x, y) THEN FALSE ELSE TileAt(x, y) = 0

getTile(x, y) == IF ~isValidTile(x, y) THEN 1 ELSE TileAt(x, y)

\* The tile array after this.tiles[y][x] = value.
StoreTile(x, y, value) ==
    [p \in DOMAIN tiles \cup {<<x, y>>} |-> IF p = <<x, y>> THEN value ELSE tiles[p]]

\* setTile without its bounds check.
setTile_Unchecked(x, y, value) == StoreTile(x, y, value)

\* The tile array after setTile(x, y, value).
setTile(x, y, value) == IF isValidTile(x, y) THEN StoreTile(x, y, value) ELSE tiles

CardinalDirections == <<Tile(0, -1), Tile(1, 0), Tile(0, 1), Tile(-1, 0)>>
DiagonalDirections == <<Tile(1, -1), Tile(1, 1), Tile(-1, 1), Tile(-1, -1)>>

\* getNeighbors accepting a diagonal when either adjacent tile is walkable.
getNeighbors_EitherAdjacent(x, y, diag) ==
    LET directions == IF diag THEN CardinalDirections \o DiagonalDirections
                      ELSE CardinalDirections
        Keep(dir) ==
            /\ isWalkable(x + dir.x, y + dir.y)
            /\ IF diag /\ dir.x # 0 /\ dir.y # 0
               THEN isWalkable(x + dir.x, y) \/ isWalkable(x, y + dir.y)
               ELSE TRUE
        kept == SelectSeq(directions, Keep)
    IN  [i \in 1..Len(kept) |-> Tile(x + kept[i].x, y + kept[i].y)]

\* The neighbors array, in the order the source pushes them.
getNeighbors(x, y, diag) ==
    LET directions == IF diag THEN CardinalDirections \o DiagonalDirections
                      ELSE CardinalDirections
        Keep(dir) ==
            /\ isWalkable(x + dir.x, y + dir.y)
            /\ IF diag /\ dir.x # 0 /\ dir.y # 0
               THEN isWalkable(x + dir.x, y) /\ isWalkable(x, y + dir.y)
               ELSE TRUE
        kept == SelectSeq(directions, Keep)
    IN  [i \in 1..Len(kept) |-> Tile(x + kept[i].x, y + kept[i].y)]

(***************************************************************************)
(* Pathfinding: costs and heuristics                                       *)
(***************************************************************************)

\* moveCost of an orthogonal step (1) and of a diagonal step (1.414).
OrthogonalCost == 100000
DiagonalCost == 141400

\* One more decimal digit of a square root: root r with remainder m of the
\* digits consumed so far, extended by the next digit pair (00).
RECURSIVE SqrtDigits(_, _, _)
SqrtDigits(r, m, n) ==
    IF n = 0 THEN r
    ELSE LET m100 == m * 100
             d == CHOOSE k \in 0..9 :
                     /\ (20 * r + k) * k <= m100
                     /\ (k = 9 \/ (20 * r + k + 1) * (k + 1) > m100)
         IN  SqrtDigits(10 * r + d, m100 - (20 * r + d) * d, n - 1)

\* The integer square root of k.
ISqrt(k) == CHOOSE r \in 0..k : r * r <= k /\ (r + 1) * (r + 1) > k

\* Math.sqrt(k) in 10^-5 units, truncated.
Sqrt(k) == LET r == ISqrt(k) IN SqrtDigits(r, k - r * r, 5)

\* heuristic: Manhattan distance.
heuristic(x1, y1, x2, y2) == (Abs(x1 - x2) + Abs(y1 - y2)) * OrthogonalCost

\* heuristicDiagonal: Euclidean distance.
heuristicDiagonal(x1, y1, x2, y2) ==
    LET dx == Abs(x1 - x2)
        dy == Abs(y1 - y2)
    IN  Sqrt(dx * dx + dy * dy)

\* new PathNode(x, y, g, h, parent)
PathNode(x, y, g, h, parent) ==
    [x |-> x, y |-> y, g |-> g, h |-> h, f |-> g + h, parent |-> parent]

(***************************************************************************)
(* Pathfinding: findPath                                                   *)
(***************************************************************************)

\* findPath testing start = goal before it validates the two tiles.
EarlyReturn_EqualityFirst(s, g) ==
    IF s.x = g.x /\ s.y = g.y
    THEN [returns |-> TRUE, value |-> Some(<<Tile(s.x, s.y)>>)]
    ELSE IF ~isWalkable(s.x, s.y) \/ ~isWalkable(g.x, g.y)
    THEN [returns |-> TRUE, value |-> Null]
    ELSE [returns |-> FALSE, value |-> Null]

\* findPath without the start = goal shortcut.
EarlyReturn_NoShortcut(s, g) ==
    IF ~isWalkable(s.x, s.y) \/ ~isWalkable(g.x, g.y)
    THEN [returns |-> TRUE, value |-> Null]
    ELSE [returns |-> FALSE, value |-> Null]

\* The two returns ahead of the search: whether findPath returns there, and what.
EarlyReturn(s, g) ==
    IF ~isWalkable(s.x, s.y) \/ ~isWalkable(g.x, g.y)
    THEN [returns |-> TRUE, value |-> Null]
    ELSE IF s.x = g.x /\ s.y = g.y
    THEN [returns |-> TRUE, value |-> Some(<<Tile(s.x, s.y)>>)]
    ELSE [returns |-> FALSE, value |-> Null]

\* The heuristic findPath picks for a movement model.
H(x, y, g, diag) ==
    IF diag THEN heuristicDiagonal(x, y, g.x, g.y) ELSE heuristic(x, y, g.x, g.y)

\* A cap of one iteration per column.
maxIterations_PerColumn == cols

maxIterations == cols * rows * 2

\* The locals of one findPath call: the PathNodes it created (by tile), its
\* open list (the tiles of its nodes, in array order), its closed set, its
\* iteration count, where it stands (pc) and what it returned.
Search(ns, open, closed, its, at, res) ==
    [nodes |-> ns, openList |-> open, closedSet |-> closed,
     iterations |-> its, pc |-> at, result |-> res]

\* findPath(grid, s, g, diag) up to the while loop.
Enter(s, g, diag) ==
    LET early == EarlyReturn(s, g)
    IN  IF early.returns
        THEN Search(<<>>, <<>>, {}, 0, "done", early.value)
        ELSE Search(Tile(s.x, s.y) :> PathNode(s.x, s.y, 0, H(s.x, s.y, g, diag), Null),
                    <<Tile(s.x, s.y)>>, {}, 0, "loop", Null)

\* The condition of the while loop.
LoopCondition(st) == Len(st.openList) > 0 /\ st.iterations < maxIterations

\* The scan for the node with the lowest f cost among open[lo..hi], taken in
\* two halves: a later node replaces an earlier one only if its f is lower,
\* so the first node with the lowest f wins.
RECURSIVE LowestF(_, _, _, _)
LowestF(ns, open, lo, hi) ==
    IF lo = hi THEN lo
    ELSE LET mid == (lo + hi) \div 2
             currentIndex == LowestF(ns, open, lo, mid)
             i == LowestF(ns, open, mid + 1, hi)
         IN  IF ns[open[i]].f < ns[open[currentIndex]].f THEN i ELSE currentIndex

\* openList.splice(index, 1)
Splice(list, index) == SubSeq(list, 1, index - 1) \o SubSeq(list, index + 1, Len(list))

\* moveCost charging a diagonal step 3.
moveCost_Expensive(current, neighborPos) ==
    IF Abs(neighborPos.x - current.x) = 1 /\ Abs(neighborPos.y - current.y) = 1
    THEN 3 * OrthogonalCost ELSE OrthogonalCost

moveCost(current, neighborPos) ==
    IF Abs(neighborPos.x - current.x) = 1 /\ Abs(neighborPos.y - current.y) = 1
    THEN DiagonalCost ELSE OrthogonalCost

\* A search that never skips an evaluated neighbor.
SkipNeighbor_Never(closed, key) == FALSE

\* "Skip if already evaluated": closedSet.has(key)
SkipNeighbor(closed, key) == key \in closed

\* The for loop over the neighbors of current, from the i-th neighbor on:
\* the PathNodes and the open list it leaves.
RECURSIVE VisitNeighbors(_, _, _, _, _, _, _, _)
VisitNeighbors(neighbors, i, current, closed, ns, open, g, diag) ==
    IF i > Len(neighbors) THEN [nodes |-> ns, openList |-> open]
    ELSE
    LET neighborPos == neighbors[i]
        gCost == current.g + moveCost(current, neighborPos)
        h == H(neighborPos.x, neighborPos.y, g, diag)
        inOpen == \E j \in 1..Len(open) : open[j] = neighborPos
    IN  IF SkipNeighbor(closed, neighborPos)
        THEN VisitNeighbors(neighbors, i + 1, current, closed, ns, open, g, diag)
        ELSE IF ~inOpen
        THEN VisitNeighbors(neighbors, i + 1, current, closed,
                 (neighborPos :> PathNode(neighborPos.x, neighborPos.y, gCost, h,
                                          Some(Tile(current.x, current.y)))) @@ ns,
                 Append(open, neighborPos), g, diag)
        ELSE IF gCost < ns[neighborPos].g
        THEN VisitNeighbors(neighbors, i + 1, current, closed,
                 [ns EXCEPT ![neighborPos].g = gCost,
                            ![neighborPos].f = gCost + ns[neighborPos].h,
                            ![neighborPos].parent = Some(Tile(current.x, current.y))],
                 open, g, diag)
        ELSE VisitNeighbors(neighbors, i + 1, current, closed, ns, open, g, diag)

\* One turn that puts the node at the end of the path.
Unshift_Push(ns, w) ==
    IF w.current = Null THEN w
    ELSE LET node == ns[Value(w.current)]
         IN  [current |-> node.parent, path |-> Append(w.path, Tile(node.x, node.y))]

\* One turn of the while loop of reconstructPath: the node goes in front of
\* the path and its parent is next.
Unshift(ns, w) ==
    IF w.current = Null THEN w
    ELSE LET node == ns[Value(w.current)]
         IN  [current |-> node.parent, path |-> <<Tile(node.x, node.y)>> \o w.path]

\* n turns of that loop, taken in two halves.
RECURSIVE Walk(_, _, _)
Walk(ns, w, n) ==
    IF w.current = Null \/ n = 0 THEN w
    ELSE IF n = 1 THEN Unshift(ns, w)
    ELSE Walk(ns, Walk(ns, w, n \div 2), n - (n \div 2))

\* reconstructPath(goalNode), goalNode the PathNode of that tile among ns. The
\* walk is cut after one turn more than there are nodes: the source's loop
\* does not end on a cyclic chain, the model shows the repeated tiles instead.
reconstructPath(ns, goalNode) ==
    Walk(ns, [current |-> Some(goalNode), path |-> <<>>], Cardinality(DOMAIN ns) + 1).path

\* closedSet.add(key), the set enumerated.
Add(closed, key) == {k \in closed \cup {key} : TRUE}

\* An iteration that leaves the counter alone.
CountIteration_Forgotten(its) == its

\* iterations++
CountIteration(its) == its + 1

\* One iteration of the while loop.
LoopBody(st, g, diag) ==
    LET currentIndex == LowestF(st.nodes, st.openList, 1, Len(st.openList))
        current == st.nodes[st.openList[currentIndex]]
        key == Tile(current.x, current.y)
    IN  IF current.x = g.x /\ current.y = g.y
        THEN Search(st.nodes, st.openList, st.closedSet, CountIteration(st.iterations),
                    "done", Some(reconstructPath(st.nodes, key)))
        ELSE LET closed == Add(st.closedSet, key)
                 after == VisitNeighbors(getNeighbors(current.x, current.y, diag), 1,
                                         current, closed, st.nodes,
                                         Splice(st.openList, currentIndex), g, diag)
             IN  Search(after.nodes, after.openList, closed,
                        CountIteration(st.iterations), "loop", Null)

\* "No path found": the return after the while loop.
AfterLoop(st) == [st EXCEPT !.pc = "done", !.result = Null]

\* The next step of a call: an iteration of the while loop, the return after
\* the loop, or nothing once the call has returned.
Step(st, g, diag) ==
    IF st.pc # "loop" THEN st
    ELSE IF LoopCondition(st) THEN LoopBody(st, g, diag)
    ELSE AfterLoop(st)

\* n steps of a call, taken in two halves.
RECURSIVE Steps(_, _, _, _)
Steps(st, g, diag, n) ==
    IF st.pc # "loop" \/ n = 0 THEN st
    ELSE IF n = 1 THEN Step(st, g, diag)
    ELSE Steps(Steps(st, g, diag, n \div 2), g, diag, n - (n \div 2))

\* The whole of findPath from the while loop on: at most maxIterations
\* iterations and the return.
RunLoop(st, g, diag) == Steps(st, g, diag, maxIterations + 1)

\* The running call, from the variables.
Current == Search(nodes, openList, closedSet, iterations, pc, result)

\* The variables take the locals of the call.
Becomes(st) ==
    /\ nodes' = st.nodes
    /\ openList' = st.openList
    /\ closedSet' = st.closedSet
    /\ iterations' = st.iterations
    /\ pc' = st.pc
    /\ result' = st.result

\* The state of a grid on which no search runs.
NoSearch ==
    /\ start = Tile(0, 0) /\ goal = Tile(0, 0) /\ diagonal = FALSE
    /\ nodes = <<>> /\ openList = <<>> /\ closedSet = {}
    /\ iterations = 0 /\ result = Null

\* No pixel path asked for, no path simplified directly, no unit on the field.
NoWorld ==
    /\ startWorld = Tile(0, 0) /\ goalWorld = Tile(0, 0) /\ pixelPath = Null
    /\ simplified = Null
    /\ units = <<>>
    /\ updating = 0 /\ frameTime = 0 /\ frames = 0 /\ commands = 0 /\ called = Null
    /\ cancelled = {}

\* A call findPath(grid, s, g, diag) runs up to its while loop.
FindPath(s, g, diag) ==
    /\ pc = "idle"
    /\ start' = s /\ goal' = g /\ diagonal' = diag
    /\ Becomes(Enter(s, g, diag))
    /\ UNCHANGED <<gridVars, smoothed, worldVars>>

\* The running call makes one iteration of its while loop.
LoopIteration ==
    /\ pc = "loop"
    /\ LoopCondition(Current)
    /\ Becomes(LoopBody(Current, goal, diagonal))
    /\ UNCHANGED <<gridVars, start, goal, diagonal, smoothed, worldVars>>

\* The running call leaves its while loop without having reached the goal.
LoopExit ==
    /\ pc = "loop"
    /\ ~LoopCondition(Current)
    /\ Becomes(AfterLoop(Current))
    /\ UNCHANGED <<gridVars, start, goal, diagonal, smoothed, worldVars>>

\* A call findPath(grid, s, g, diag) runs to its return.
FindPathToReturn(s, g, diag) ==
    /\ pc = "idle"
    /\ start' = s /\ goal' = g /\ diagonal' = diag
    /\ Becomes(RunLoop(Enter(s, g, diag), g, diag))
    /\ UNCHANGED <<gridVars, smoothed, worldVars>>

\* The caller drops the search and its result.
Return ==
    /\ pc = "done"
    /\ pc' = "idle"
    /\ start' = Tile(0, 0) /\ goal' = Tile(0, 0) /\ diagonal' = FALSE
    /\ nodes' = <<>> /\ openList' = <<>> /\ closedSet' = {}
    /\ iterations' = 0 /\ result' = Null
    /\ smoothed' = Null
    /\ UNCHANGED <<gridVars, worldVars>>

(***************************************************************************)
(* Pathfinding: smoothPath                                                 *)
(***************************************************************************)

\* Math.round(n / d) for d > 0: halves round up.
Round(n, d) == (2 * n + d) \div (2 * d)

\* A line of sight that reaches the next tile only.
hasLineOfSight_NextTileOnly(from, to) ==
    /\ Max(Abs(to.x - from.x), Abs(to.y - from.y)) <= 1
    /\ isWalkable(to.x, to.y)

\* A line of sight that tests the far end only.
hasLineOfSight_FarEndOnly(from, to) == from = to \/ isWalkable(to.x, to.y)

\* hasLineOfSight(grid, from, to)
hasLineOfSight(from, to) ==
    LET dx == to.x - from.x
        dy == to.y - from.y
        steps == Max(Abs(dx), Abs(dy))
    IN  IF steps = 0 THEN TRUE
        ELSE \A i \in 1..steps :
                 isWalkable(Round(from.x * steps + dx * i, steps),
                            Round(from.y * steps + dy * i, steps))

\* The for loop looking for the furthest visible point from path[currentIndex],
\* from index i on, with furthestIndex so far.
RECURSIVE FurthestVisible(_, _, _, _)
FurthestVisible(path, currentIndex, i, furthestIndex) ==
    IF i > Len(path) THEN furthestIndex
    ELSE IF hasLineOfSight(path[currentIndex], path[i])
    THEN FurthestVisible(path, currentIndex, i + 1, i)
    ELSE furthestIndex

\* The while loop of smoothPath.
RECURSIVE SmoothFrom(_, _, _)
SmoothFrom(path, currentIndex, smoothedSoFar) ==
    IF currentIndex >= Len(path) THEN smoothedSoFar
    ELSE LET furthestIndex ==
                 FurthestVisible(path, currentIndex, currentIndex + 2, currentIndex + 1)
         IN  SmoothFrom(path, furthestIndex, Append(smoothedSoFar, path[furthestIndex]))

\* smoothPath(grid, path)
smoothPath(path) ==
    IF Len(path) <= 2 THEN path
    ELSE SmoothFrom(path, 1, <<path[1]>>)

\* smoothPath called on findPath's result, or again on its own result.
Smooth ==
    /\ pc = "done"
    /\ result # Null
    /\ smoothed' = Some(smoothPath(Value(IF smoothed = Null THEN result ELSE smoothed)))
    /\ UNCHANGED <<gridVars, pc, searchVars, worldVars>>

(***************************************************************************)
(* World coordinates and pixel paths (PixelPathfinding)                    *)
(*                                                                         *)
(* Numbers.  A world coordinate is a double in the source; the model keeps *)
(* it as an integer number of hundredths of a pixel, so that a tile of 50  *)
(* pixels is 5000 wide.  Distances are compared through their squares      *)
(* where the source compares square roots, and angles through the tangent, *)
(* to within 0.005 degree.                                                 *)
(***************************************************************************)

\* Units of the model per pixel.
PerPixel == 100

\* Grid.js: export const TILE_SIZE = 50
TILE_SIZE == 50

\* grid.tileSize, in model units.
tileSize == TILE_SIZE * PerPixel

\* A world position { x, y }.
Point(x, y) == [x |-> x, y |-> y]

\* Math.floor(n / d) for d > 0.
Floor(n, d) == IF n >= 0 THEN n \div d ELSE -((-n + d - 1) \div d)

\* A conversion to tiles that rounds toward zero.
worldToGridOf_Truncates(size, worldX, worldY) ==
    Tile(IF worldX >= 0 THEN worldX \div size ELSE -((-worldX) \div size),
         IF worldY >= 0 THEN worldY \div size ELSE -((-worldY) \div size))

\* grid.worldToGrid(worldX, worldY) on a grid whose tileSize is size.
worldToGridOf(size, worldX, worldY) == Tile(Floor(worldX, size), Floor(worldY, size))

\* grid.gridToWorld(gridX, gridY) on a grid whose tileSize is size.
gridToWorldOf(size, gridX, gridY) ==
    Point(gridX * size + size \div 2, gridY * size + size \div 2)

\* grid.worldToGrid(worldX, worldY)
worldToGrid(worldX, worldY) == worldToGridOf(tileSize, worldX, worldY)

\* A conversion to the corner of the tile instead of its center.
gridToWorld_Corner(gridX, gridY) == Point(gridX * tileSize, gridY * tileSize)

\* grid.gridToWorld(gridX, gridY): the center of the tile.
gridToWorld(gridX, gridY) == gridToWorldOf(tileSize, gridX, gridY)

\* findPath(grid, s, g, diag) as one call: its return value.
findPath(s, g, diag) == RunLoop(Enter(s, g, diag), g, diag).result

\* findPixelPath that returns the straight path whatever the grid.
findPixelPath_Straight(startW, goalW) ==
    Some(<<Point(startW.x, startW.y), Point(goalW.x, goalW.y)>>)

\* findPixelPath that returns the centers of the tiles, the exact pixels of
\* start and goal not put in.
findPixelPath_TileCenters(startW, goalW) ==
    LET startTile == worldToGrid(startW.x, startW.y)
        goalTile == worldToGrid(goalW.x, goalW.y)
        gridPath == findPath(startTile, goalTile, TRUE)
    IN  IF ~isWalkable(goalTile.x, goalTile.y) THEN Null
        ELSE IF startTile.x = goalTile.x /\ startTile.y = goalTile.y
        THEN Some(<<Point(startW.x, startW.y), Point(goalW.x, goalW.y)>>)
        ELSE IF gridPath = Null \/ Len(Value(gridPath)) = 0 THEN Null
        ELSE LET smoothedGridPath == smoothPath(Value(gridPath))
             IN  Some([i \in 1..Len(smoothedGridPath) |->
                          gridToWorld(smoothedGridPath[i].x, smoothedGridPath[i].y)])

\* findPixelPath that runs the tile search also when start and goal share a
\* tile.
findPixelPath_NoSameTile(startW, goalW) ==
    LET startTile == worldToGrid(startW.x, startW.y)
        goalTile == worldToGrid(goalW.x, goalW.y)
        gridPath == findPath(startTile, goalTile, TRUE)
    IN  IF ~isWalkable(goalTile.x, goalTile.y) THEN Null
        ELSE IF gridPath = Null \/ Len(Value(gridPath)) = 0 THEN Null
        ELSE LET smoothedGridPath == smoothPath(Value(gridPath))
                 worldPath == [i \in 1..Len(smoothedGridPath) |->
                                  gridToWorld(smoothedGridPath[i].x, smoothedGridPath[i].y)]
                 last == [worldPath EXCEPT ![Len(worldPath)] = Point(goalW.x, goalW.y)]
             IN  Some(IF Len(last) > 1
                      THEN [last EXCEPT ![1] = Point(startW.x, startW.y)]
                      ELSE last)

\* findPixelPath(grid, startWorld, goalWorld): Null or Some(worldPath).
findPixelPath(startW, goalW) ==
    LET startTile == worldToGrid(startW.x, startW.y)
        goalTile == worldToGrid(goalW.x, goalW.y)
        toWorld(smoothedGridPath) ==
            LET worldPath == [i \in 1..Len(smoothedGridPath) |->
                                 gridToWorld(smoothedGridPath[i].x, smoothedGridPath[i].y)]
                last == [worldPath EXCEPT ![Len(worldPath)] = Point(goalW.x, goalW.y)]
            IN  Some(IF Len(last) > 1
                     THEN [last EXCEPT ![1] = Point(startW.x, startW.y)]
                     ELSE last)
        smoothedOf(gridPath) ==
            IF gridPath = Null \/ Len(Value(gridPath)) = 0 THEN Null
            ELSE CHOOSE worldPath \in
                     {toWorld(smoothedGridPath) :
                         smoothedGridPath \in {smoothPath(Value(gridPath))}} : TRUE
    IN  IF ~isWalkable(goalTile.x, goalTile.y) THEN Null
        ELSE IF startTile.x = goalTile.x /\ startTile.y = goalTile.y
        THEN Some(<<Point(startW.x, startW.y), Point(goalW.x, goalW.y)>>)
        ELSE CHOOSE worldPath \in
                 {smoothedOf(gridPath) :
                     gridPath \in {findPath(startTile, goalTile, TRUE)}} : TRUE

\* Math.floor(Math.sqrt(k)) for 0 <= k < 2^31, by bisection between lo and hi
\* with lo * lo <= k < hi * hi.
FloorSqrt(k) ==
    LET RECURSIVE Bisect(_, _)
        Bisect(lo, hi) ==
            IF hi - lo <= 1 THEN lo
            ELSE LET mid == (lo + hi) \div 2
                 IN  IF mid * mid <= k THEN Bisect(mid, hi) ELSE Bisect(lo, mid)
    IN  Bisect(0, 46341)

\* dx * dx + dy * dy: the square of the distance between two positions.
DistanceSquared(from, to) ==
    (to.x - from.x) * (to.x - from.x) + (to.y - from.y) * (to.y - from.y)

\* hasLineOfSightWorld(grid, fromWorld, toWorld).  samples is
\* Math.ceil(distance / grid.tileSize * 4), distance the square root of q.
hasLineOfSightWorld(fromWorld, toWorld) ==
    LET q == DistanceSquared(fromWorld, toWorld)
        r == FloorSqrt(q)
        rest == q - r * r
        k == CHOOSE k \in 0..3 :
                 /\ 8 * r * k + k * k <= 16 * rest
                 /\ \A j \in (k + 1)..3 : 8 * r * j + j * j > 16 * rest
        samples == IF rest = 0 THEN (4 * r + tileSize - 1) \div tileSize
                   ELSE (4 * r + k) \div tileSize + 1
        tile(i) ==
            worldToGrid(
                Floor(fromWorld.x * samples + (toWorld.x - fromWorld.x) * i, samples),
                Floor(fromWorld.y * samples + (toWorld.y - fromWorld.y) * i, samples))
    IN  IF q = 0 THEN TRUE
        ELSE \A i \in 0..samples : isWalkable(tile(i).x, tile(i).y)

\* A first intermediate waypoint that is never force-kept.
KeepsFirstIntermediate_Never(path) == FALSE

\* The special handling of the first waypoint: the start lies more than 30%
\* of a tile from the center of its tile and angleDiff > Math.PI / 6 for the
\* headings atan2(dy1, dx1) and atan2(dy2, dx2); atan2(0, 0) is 0, the heading
\* of the positive x axis.
KeepsFirstIntermediate(path) ==
    LET startTile == worldToGrid(path[1].x, path[1].y)
        tileCenter == gridToWorld(startTile.x, startTile.y)
        limit == (3 * tileSize) \div 10
        dx1 == path[2].x - path[1].x
        dy1 == path[2].y - path[1].y
        dx2 == path[3].x - path[1].x
        dy2 == path[3].y - path[1].y
        x1 == IF dx1 = 0 /\ dy1 = 0 THEN 1 ELSE dx1
        x2 == IF dx2 = 0 /\ dy2 = 0 THEN 1 ELSE dx2
        dot == x1 * x2 + dy1 * dy2
        cross == Abs(x1 * dy2 - dy1 * x2)
        k == 1 + Max(dot, cross) \div 26000
        d == dot \div k
        c == cross \div k
    IN  /\ Len(path) > 2
        /\ DistanceSquared(tileCenter, path[1]) > limit * limit
        /\ dot <= 0 \/ 3 * c * c > d * d

\* The test of one candidate extension that accepts it on sight alone.
Extends_NoCap(from, to, maxSegmentTiles) == hasLineOfSightWorld(from, to)

\* distance <= maxSegmentLength && hasLineOfSightWorld(grid, from, to)
Extends(from, to, maxSegmentTiles) ==
    /\ DistanceSquared(from, to) <=
           (maxSegmentTiles * tileSize) * (maxSegmentTiles * tileSize)
    /\ hasLineOfSightWorld(from, to)

\* The for loop of optimizePixelPath: the furthest index reached from
\* currentIndex before the first candidate that fails (break).
RECURSIVE FurthestIndex(_, _, _, _, _)
FurthestIndex(path, currentIndex, i, furthestIndex, maxSegmentTiles) ==
    IF i > Len(path) THEN furthestIndex
    ELSE IF Extends(path[currentIndex], path[i], maxSegmentTiles)
    THEN FurthestIndex(path, currentIndex, i + 1, i, maxSegmentTiles)
    ELSE furthestIndex

\* The while loop of optimizePixelPath: the indices pushed from currentIndex.
RECURSIVE OptimizeFrom(_, _, _)
OptimizeFrom(path, currentIndex, maxSegmentTiles) ==
    IF currentIndex >= Len(path) THEN <<>>
    ELSE LET furthestIndex ==
                 FurthestIndex(path, currentIndex, currentIndex + 2,
                               currentIndex + 1, maxSegmentTiles)
         IN  <<furthestIndex>> \o OptimizeFrom(path, furthestIndex, maxSegmentTiles)

\* The indices (from 1) of the waypoints optimizePixelPath keeps.
OptimizedIndices(path, maxSegmentTiles) ==
    IF KeepsFirstIntermediate(path)
    THEN <<1, 2>> \o OptimizeFrom(path, 2, maxSegmentTiles)
    ELSE <<1>> \o OptimizeFrom(path, 1, maxSegmentTiles)

\* optimizePixelPath that pushes the end of every run twice.
optimizePixelPath_Repeats(path, maxSegmentTiles) ==
    IF Len(path) <= 2 THEN path
    ELSE LET kept == OptimizedIndices(path, maxSegmentTiles)
         IN  [i \in 1..(2 * Len(kept)) |-> path[kept[(i + 1) \div 2]]]

\* optimizePixelPath(grid, path, maxSegmentTiles)
optimizePixelPath(path, maxSegmentTiles) ==
    IF Len(path) <= 2 THEN path
    ELSE LET kept == OptimizedIndices(path, maxSegmentTiles)
         IN  [i \in 1..Len(kept) |-> path[kept[i]]]

(***************************************************************************)
(* Unit                                                                    *)
(*                                                                         *)
(* Positions, distances and moves are in hundredths of a pixel, timers in  *)
(* milliseconds.  A distance is the integer square root of its square; a   *)
(* comparison of a distance with a constant compares the squares.          *)
(***************************************************************************)

\* Unit.js constructor: pixels per frame, milliseconds, pixels, health points.
speed == 2
stuckThreshold == 500
standingStillThreshold == 1500
acceptableRange == 50
size == 40
collisionRadius == size \div 4
maxHealth == 100
attackRange == 30
attackDamage == 10
attackCooldownMax == 1000

\* Infinity, the value of lastDistanceToWaypoint when no distance is recorded.
Infinity == 2147483647

\* n pixels squared, in model units.
PixelsSquared(n) == (n * PerPixel) * (n * PerPixel)

\* new Unit(x, y)
NewUnit(x, y) ==
    [x |-> x, y |-> y, targetX |-> x, targetY |-> y,
     path |-> <<>>, currentWaypointIndex |-> 0,
     stuckTimer |-> 0, lastDistanceToWaypoint |-> Infinity, progressTimer |-> 0,
     standingStillTimer |-> 0, lastMovementCheck |-> Point(x, y),
     state |-> "idle", deathTimer |-> 0,
     health |-> maxHealth, attackTarget |-> Null, attackCooldown |-> 0]

\* unit.isAlive()
isAlive(u) == u.state # "dead"

\* skipToNextWaypoint that resets the timers and stays at the waypoint.
skipToNextWaypoint_Stays(u) ==
    [u EXCEPT !.stuckTimer = 0, !.progressTimer = 0, !.lastDistanceToWaypoint = Infinity]

\* skipToNextWaypoint that empties the path after the last waypoint and leaves
\* the index where it is.
skipToNextWaypoint_KeepsIndex(u) ==
    LET v == [u EXCEPT !.currentWaypointIndex = @ + 1,
                       !.stuckTimer = 0,
                       !.progressTimer = 0,
                       !.lastDistanceToWaypoint = Infinity]
    IN  IF v.currentWaypointIndex >= Len(v.path)
        THEN [v EXCEPT !.path = <<>>]
        ELSE v

\* unit.skipToNextWaypoint()
skipToNextWaypoint(u) ==
    LET v == [u EXCEPT !.currentWaypointIndex = @ + 1,
                       !.stuckTimer = 0,
                       !.progressTimer = 0,
                       !.lastDistanceToWaypoint = Infinity]
    IN  IF v.currentWaypointIndex >= Len(v.path)
        THEN [v EXCEPT !.path = <<>>, !.currentWaypointIndex = 0]
        ELSE v

\* cancelMove that empties the path but leaves the movement target.
cancelMove_KeepsTarget(u) ==
    [u EXCEPT !.path = <<>>,
              !.currentWaypointIndex = 0,
              !.stuckTimer = 0,
              !.progressTimer = 0,
              !.lastDistanceToWaypoint = Infinity,
              !.standingStillTimer = 0,
              !.state = "idle"]

\* unit.cancelMove()
cancelMove(u) ==
    [u EXCEPT !.path = <<>>,
              !.currentWaypointIndex = 0,
              !.targetX = u.x,
              !.targetY = u.y,
              !.stuckTimer = 0,
              !.progressTimer = 0,
              !.lastDistanceToWaypoint = Infinity,
              !.standingStillTimer = 0,
              !.state = "idle"]

\* checkStandingStill that never takes a movement for a reason to start over.
checkStandingStill_NoReset(u, deltaTime) ==
    [u EXCEPT !.standingStillTimer = @ + deltaTime]

\* unit.checkStandingStill(deltaTime), called with a path of at least one
\* waypoint.
checkStandingStill(u, deltaTime) ==
    IF 4 * DistanceSquared(u.lastMovementCheck, u) > PixelsSquared(1)
    THEN [u EXCEPT !.standingStillTimer = 0, !.lastMovementCheck = Point(u.x, u.y)]
    ELSE LET v == [u EXCEPT !.standingStillTimer = @ + deltaTime]
             finalDestination == u.path[Len(u.path)]
         IN  IF v.standingStillTimer > standingStillThreshold
             THEN IF DistanceSquared(v, finalDestination) <= PixelsSquared(acceptableRange)
                  THEN cancelMove(v)
                  ELSE [skipToNextWaypoint(v) EXCEPT !.standingStillTimer = 0]
             ELSE v

\* followPath that drops the path at once.
followPath_DropsPath(u) == [u EXCEPT !.path = <<>>, !.currentWaypointIndex = 0]

\* followPath with an arrival distance of 1 pixel at every waypoint.
followPath_OnePixel(u) ==
    IF u.currentWaypointIndex >= Len(u.path)
    THEN [u EXCEPT !.path = <<>>, !.currentWaypointIndex = 0]
    ELSE LET waypoint == u.path[u.currentWaypointIndex + 1]
             next == u.currentWaypointIndex + 1
         IN  IF DistanceSquared(u, waypoint) < PixelsSquared(1)
             THEN IF next < Len(u.path)
                  THEN [u EXCEPT !.currentWaypointIndex = next,
                                 !.targetX = u.path[next + 1].x,
                                 !.targetY = u.path[next + 1].y]
                  ELSE [u EXCEPT !.currentWaypointIndex = next]
             ELSE [u EXCEPT !.targetX = waypoint.x, !.targetY = waypoint.y]

\* unit.followPath()
followPath(u) ==
    IF u.currentWaypointIndex >= Len(u.path)
    THEN [u EXCEPT !.path = <<>>, !.currentWaypointIndex = 0]
    ELSE LET waypoint == u.path[u.currentWaypointIndex + 1]
             threshold == IF u.currentWaypointIndex = Len(u.path) - 1 THEN 1 ELSE 2
             next == u.currentWaypointIndex + 1
         IN  IF DistanceSquared(u, waypoint) < PixelsSquared(threshold)
             THEN IF next < Len(u.path)
                  THEN [u EXCEPT !.currentWaypointIndex = next,
                                 !.targetX = u.path[next + 1].x,
                                 !.targetY = u.path[next + 1].y]
                  ELSE [u EXCEPT !.currentWaypointIndex = next]
             ELSE [u EXCEPT !.targetX = waypoint.x, !.targetY = waypoint.y]

\* checkStuckProgress that takes any slide for progress.
checkStuckProgress_AlwaysProgress(u, currentDistance, deltaTime) ==
    IF Len(u.path) = 0 THEN u
    ELSE [u EXCEPT !.progressTimer = 0,
                   !.lastDistanceToWaypoint = currentDistance,
                   !.stuckTimer = 0]

\* unit.checkStuckProgress(currentDistance, deltaTime)
checkStuckProgress(u, currentDistance, deltaTime) ==
    IF Len(u.path) = 0 THEN u
    ELSE IF u.lastDistanceToWaypoint = Infinity
    THEN [u EXCEPT !.lastDistanceToWaypoint = currentDistance, !.progressTimer = 0]
    ELSE IF 2 * (u.lastDistanceToWaypoint - currentDistance) > PerPixel
    THEN [u EXCEPT !.progressTimer = 0,
                   !.lastDistanceToWaypoint = currentDistance,
                   !.stuckTimer = 0]
    ELSE LET v == [u EXCEPT !.progressTimer = @ + deltaTime]
         IN  IF v.progressTimer > stuckThreshold
             THEN [skipToNextWaypoint(v) EXCEPT !.progressTimer = 0,
                                                !.lastDistanceToWaypoint = Infinity]
             ELSE v

\* wouldCollideWithUnits that finds no unit in the way.
wouldCollideWithUnits_Never(us, i, x, y) == FALSE

\* unit.wouldCollideWithUnits(x, y, units), for the unit at index i.
wouldCollideWithUnits(us, i, x, y) ==
    \E j \in 1..Len(us) :
        /\ j # i
        /\ isAlive(us[j])
        /\ DistanceSquared(Point(x, y), us[j]) < PixelsSquared(2 * collisionRadius)

\* canMoveTo that tests the tiles but not the other units.
canMoveTo_TilesOnly(us, i, x, y) ==
    \A p \in {<<1700, 0>>, <<1202, 1202>>, <<0, 1700>>, <<-1202, 1202>>,
              <<-1700, 0>>, <<-1202, -1202>>, <<0, -1700>>, <<1202, -1202>>, <<0, 0>>} :
        LET tile == worldToGrid(x + (p[1] * PerPixel) \div 100,
                                y + (p[2] * PerPixel) \div 100)
        IN  isWalkable(tile.x, tile.y)

\* unit.canMoveTo(x, y, grid, units), for the unit at index i: 8 points on a
\* circle of radius (size / 2) * 0.85 = 17 pixels, at 0, 45, .. 315 degrees
\* (17 * cos 45 = 12.02), then the center, then the other units.
canMoveTo(us, i, x, y) ==
    LET checkPoints == {<<1700, 0>>, <<1202, 1202>>, <<0, 1700>>, <<-1202, 1202>>,
                        <<-1700, 0>>, <<-1202, -1202>>, <<0, -1700>>, <<1202, -1202>>,
                        <<0, 0>>}
    IN  /\ \A p \in checkPoints :
               LET tile == worldToGrid(x + (p[1] * PerPixel) \div 100,
                                       y + (p[2] * PerPixel) \div 100)
               IN  isWalkable(tile.x, tile.y)
        /\ ~wouldCollideWithUnits(us, i, x, y)

\* unit.applySeparation(units), for the unit at index i: the push (x, y), or
\* nan when another living unit stands on the very same position (0 / 0).
applySeparation(us, i) ==
    LET separationRadius == collisionRadius * 3 * PerPixel
        nearby == {j \in 1..Len(us) :
                      /\ j # i
                      /\ isAlive(us[j])
                      /\ DistanceSquared(us[j], us[i]) < separationRadius * separationRadius}
        \* (dx / distance) * strength, in 1/10000
        push(d, distance) ==
            Round(Round(d * 10000, distance) * (separationRadius - distance),
                  separationRadius)
        pushOf(j) ==
            CHOOSE p \in {<<push(us[i].x - us[j].x, distance),
                            push(us[i].y - us[j].y, distance)>> :
                             distance \in {FloorSqrt(DistanceSquared(us[j], us[i]))}} : TRUE
        RECURSIVE Sum(_)
        Sum(S) ==
            IF S = {} THEN <<0, 0>>
            ELSE LET j == CHOOSE j \in S : TRUE
                 IN  CHOOSE sum \in {<<rest[1] + p[1], rest[2] + p[2]>> :
                                        rest \in {Sum(S \ {j})}, p \in {pushOf(j)}} : TRUE
        scaled(separation, magnitude) ==
            IF magnitude > 0
            THEN [x |-> Round(separation[1] * 3 * speed * PerPixel, 10 * magnitude),
                  y |-> Round(separation[2] * 3 * speed * PerPixel, 10 * magnitude),
                  nan |-> FALSE]
            ELSE [x |-> 0, y |-> 0, nan |-> FALSE]
        limited(separation) ==
            CHOOSE force \in
                {scaled(separation, magnitude) :
                    magnitude \in {FloorSqrt(separation[1] * separation[1]
                                             + separation[2] * separation[2])}} : TRUE
    IN  IF nearby = {} THEN [x |-> 0, y |-> 0, nan |-> FALSE]
        ELSE IF \E j \in nearby : DistanceSquared(us[j], us[i]) = 0
        THEN [x |-> 0, y |-> 0, nan |-> TRUE]
        ELSE CHOOSE force \in {limited(separation) : separation \in {Sum(nearby)}} : TRUE

\* A slide that tries the vertical slide before the horizontal one.
tryAdvancedSliding_VerticalFirst(us, i, oldX, oldY, newX, newY, moveX, moveY, moveNaN, newNaN) ==
    IF ~newNaN /\ canMoveTo(us, i, oldX, newY)
    THEN [canMove |-> TRUE, x |-> oldX, y |-> newY]
    ELSE IF ~newNaN /\ canMoveTo(us, i, newX, oldY)
    THEN [canMove |-> TRUE, x |-> newX, y |-> oldY]
    ELSE [canMove |-> FALSE, x |-> oldX, y |-> oldY]

\* unit.tryAdvancedSliding(oldX, oldY, newX, newY, moveX, moveY, grid, units),
\* for the unit at index i.  moveNaN: moveX and moveY are NaN; newNaN: newX
\* and newY are NaN; a candidate with a NaN coordinate is on no walkable tile.
\* cos and sin of 0.3 and 0.6 rad are in 1/10000.
tryAdvancedSliding(us, i, oldX, oldY, newX, newY, moveX, moveY, moveNaN, newNaN) ==
    LET zero == moveX = 0 /\ moveY = 0
        mx == IF zero THEN 1 ELSE moveX
        my == moveY
        turned(c, s, length) ==
            Point(oldX + Round(speed * PerPixel * (c * mx - s * my), 100 * length),
                  oldY + Round(speed * PerPixel * (s * mx + c * my), 100 * length))
        candidatesOf(length) ==
            (IF newNaN THEN <<>> ELSE <<Point(newX, oldY), Point(oldX, newY)>>)
            \o (IF moveNaN THEN <<>>
                ELSE <<Point(oldX + Round(moveX, 2), oldY + Round(moveY, 2)),
                       turned(9553, -2955, length), turned(9553, 2955, length),
                       turned(8253, -5646, length), turned(8253, 5646, length)>>)
        firstOf(candidates, accepted) ==
            IF accepted = {} THEN [canMove |-> FALSE, x |-> oldX, y |-> oldY]
            ELSE LET first == CHOOSE k \in accepted : \A l \in accepted : k <= l
                 IN  [canMove |-> TRUE, x |-> candidates[first].x, y |-> candidates[first].y]
        tried(candidates) ==
            CHOOSE slideResult \in
                {firstOf(candidates, accepted) :
                    accepted \in {{k \in 1..Len(candidates) :
                                      canMoveTo(us, i, candidates[k].x, candidates[k].y)}}} : TRUE
        slides(length) ==
            CHOOSE slideResult \in
                {tried(candidates) : candidates \in {candidatesOf(length)}} : TRUE
    IN  CHOOSE slideResult \in
            {slides(length) : length \in {FloorSqrt(10000 * (mx * mx + my * my))}} : TRUE

\* unit.move(deltaTime, grid, units) for the unit at index i, whose fields
\* are u: the unit afterwards.  A value that the code computes once and reads
\* many times (the unit after the path checks, the separation, the distance,
\* the slide) is drawn from a one-element set, which evaluates it once.
move(us, i, u, deltaTime) ==
    LET standing == IF Len(u.path) > 0 THEN checkStandingStill(u, deltaTime) ELSE u
        step(v, separation, distance) ==
            LET dx == v.targetX - v.x
                dy == v.targetY - v.y
                distanceSquared == dx * dx + dy * dy
                moveX == Round(dx * speed * PerPixel, distance) + separation.x
                moveY == Round(dy * speed * PerPixel, distance) + separation.y
                close == distanceSquared < PixelsSquared(speed)
                newX == IF close THEN v.targetX ELSE v.x + moveX
                newY == IF close THEN v.targetY ELSE v.y + moveY
                newNaN == separation.nan /\ ~close
                slide(slideResult) ==
                    IF slideResult.canMove
                    THEN checkStuckProgress([v EXCEPT !.x = slideResult.x,
                                                      !.y = slideResult.y,
                                                      !.state = "walking"],
                                            distance, deltaTime)
                    ELSE LET idle == [v EXCEPT !.state = "idle"]
                             stuck == [idle EXCEPT !.stuckTimer = @ + deltaTime]
                         IN  IF Len(v.path) = 0 THEN idle
                             ELSE IF stuck.stuckTimer > stuckThreshold
                             THEN skipToNextWaypoint(stuck)
                             ELSE stuck
                rest == [v EXCEPT !.stuckTimer = 0,
                                  !.progressTimer = 0,
                                  !.lastDistanceToWaypoint = Infinity]
            IN  IF distanceSquared > PixelsSquared(1)
                THEN IF newNaN \/ ~canMoveTo(us, i, newX, newY)
                     THEN CHOOSE moved \in
                              {slide(slideResult) : slideResult \in
                                  {tryAdvancedSliding(us, i, v.x, v.y, newX, newY,
                                                      moveX, moveY, separation.nan,
                                                      newNaN)}} : TRUE
                     ELSE [rest EXCEPT !.x = newX,
                                       !.y = newY,
                                       !.state = IF close THEN "idle" ELSE "walking"]
                ELSE [rest EXCEPT !.x = v.targetX, !.y = v.targetY, !.state = "idle"]
        from(v) ==
            CHOOSE moved \in
                {step(v, separation, distance) :
                    separation \in {applySeparation(us, i)},
                    distance \in {FloorSqrt((v.targetX - v.x) * (v.targetX - v.x)
                                            + (v.targetY - v.y) * (v.targetY - v.y))}} : TRUE
    IN  CHOOSE moved \in
            {from(v) : v \in {IF Len(standing.path) > 0 THEN followPath(standing)
                              ELSE standing}} : TRUE

\* unit.setTarget(x, y)
setTarget(u, x, y) ==
    [u EXCEPT !.targetX = x,
              !.targetY = y,
              !.attackTarget = Null,
              !.path = <<>>,
              !.currentWaypointIndex = 0]

\* setPath that resets nothing but the path and the index.
setPath_PathOnly(u, path) ==
    [u EXCEPT !.path = path, !.currentWaypointIndex = 0]

\* unit.setPath(path)
setPath(u, path) ==
    IF Len(path) = 0
    THEN [u EXCEPT !.path = <<>>, !.currentWaypointIndex = 0]
    ELSE [u EXCEPT !.path = path,
                   !.currentWaypointIndex = 0,
                   !.attackTarget = Null,
                   !.stuckTimer = 0,
                   !.progressTimer = 0,
                   !.lastDistanceToWaypoint = Infinity,
                   !.standingStillTimer = 0,
                   !.lastMovementCheck = Point(u.x, u.y),
                   !.targetX = path[1].x,
                   !.targetY = path[1].y]

\* unit.setAttackTarget(target) for the unit at index i; target is Null or the
\* index of a unit.
setAttackTarget(u, i, target) ==
    IF target # Null /\ Value(target) # i
    THEN [u EXCEPT !.attackTarget = target]
    ELSE u

\* unit.die()
die(u) ==
    [u EXCEPT !.health = 0, !.state = "dead", !.deathTimer = 0, !.attackTarget = Null]

\* unit.takeDamage(amount)
takeDamage(u, amount) ==
    IF u.state = "dead" THEN u
    ELSE IF u.health - amount <= 0 THEN die([u EXCEPT !.health = @ - amount])
    ELSE [u EXCEPT !.health = @ - amount]

\* unit.heal(amount)
heal(u, amount) ==
    IF u.state = "dead" THEN u
    ELSE [u EXCEPT !.health = IF @ + amount < maxHealth THEN @ + amount ELSE maxHealth]

\* unit.hasValidAttackTarget() for the fields u of a unit of us.
hasValidAttackTarget(us, u) ==
    /\ u.attackTarget # Null
    /\ us[Value(u.attackTarget)].state # "dead"

\* unit.updateCombatBehavior(deltaTime, grid, units) and performAttack for the
\* unit at index i, whose fields are u: the units afterwards.
updateCombatBehavior(us, i, u, deltaTime) ==
    LET target == Value(u.attackTarget)
    IN  IF DistanceSquared(u, us[target]) > PixelsSquared(attackRange)
        THEN [us EXCEPT ![i] = move(us, i, setTarget(u, us[target].x, us[target].y),
                                    deltaTime)]
        ELSE IF u.attackCooldown <= 0
        THEN [us EXCEPT ![i] = [u EXCEPT !.state = "attacking",
                                         !.attackCooldown = attackCooldownMax],
                        ![target] = takeDamage(us[target], attackDamage)]
        ELSE [us EXCEPT ![i] = [u EXCEPT !.state = "attacking"]]

\* update whose movement step pushes the living units within the separation
\* radius away by the separation it computes for the moving unit.
update_PushesNearby(us, i, deltaTime) ==
    LET u == IF us[i].attackCooldown > 0
             THEN [us[i] EXCEPT !.attackCooldown = @ - deltaTime]
             ELSE us[i]
        separation == applySeparation(us, i)
    IN  IF us[i].state = "dead"
        THEN [us EXCEPT ![i].deathTimer = @ + deltaTime]
        ELSE IF hasValidAttackTarget(us, u)
        THEN updateCombatBehavior(us, i, u, deltaTime)
        ELSE [j \in 1..Len(us) |->
                 IF j = i THEN move(us, i, [u EXCEPT !.attackTarget = Null], deltaTime)
                 ELSE IF isAlive(us[j]) /\ ~separation.nan
                 THEN [us[j] EXCEPT !.x = @ - separation.x, !.y = @ - separation.y]
                 ELSE us[j]]

\* unit.update(deltaTime, grid, units) for the unit at index i: the units
\* afterwards.
update(us, i, deltaTime) ==
    LET u == IF us[i].attackCooldown > 0
             THEN [us[i] EXCEPT !.attackCooldown = @ - deltaTime]
             ELSE us[i]
    IN  IF us[i].state = "dead"
        THEN [us EXCEPT ![i].deathTimer = @ + deltaTime]
        ELSE IF hasValidAttackTarget(us, u)
        THEN updateCombatBehavior(us, i, u, deltaTime)
        ELSE [us EXCEPT ![i] = move(us, i, [u EXCEPT !.attackTarget = Null], deltaTime)]

(***************************************************************************)
(* The grid under edit and searches on it                                  *)
(***************************************************************************)

Blocked(t) == {p \in DOMAIN t : t[p] # 0}

\* The coordinates callers pass: the grid and one tile beyond each edge.
Coordinates == {Tile(x, y) : x \in -1..cols, y \in -1..rows}

\* grid.setTile(x, y, value) between two searches.
SetTile(x, y, value) ==
    /\ pc = "idle"
    /\ tiles' = setTile(x, y, value)
    /\ Cardinality(Blocked(tiles')) <= MaxBlocked
    /\ UNCHANGED <<cols, rows, pc, searchVars, smoothed, worldVars>>

\* new Grid(width, height, tileSize) with cols = c and rows = r.
Init ==
    /\ cols \in 0..MaxCols
    /\ rows \in 0..MaxRows
    /\ tiles = NewTiles(cols, rows)
    /\ pc = "idle"
    /\ NoSearch
    /\ smoothed = Null
    /\ NoWorld

Next ==
    \/ \E x \in -1..cols, y \in -1..rows, value \in {0, 1} : SetTile(x, y, value)
    \/ \E s \in Coordinates, g \in Coordinates, diag \in BOOLEAN : FindPath(s, g, diag)
    \/ LoopIteration
    \/ LoopExit
    \/ Smooth
    \/ Return

Spec == Init /\ [][Next]_vars

\* The grid under edit alone.
NextGrid == \E x \in -1..cols, y \in -1..rows, value \in {0, 1} : SetTile(x, y, value)

SpecGrid == Init /\ [][NextGrid]_vars

(***************************************************************************)
(* The two simplifiers called on paths of any shape                        *)
(***************************************************************************)

\* The longest path handed to a simplifier.
MaxWaypoints == 3

\* The sequences over S of length at most n.
SeqsUpTo(S, n) == UNION {[1..k -> S] : k \in 0..n}

\* The tiles of the grid.
GridTiles == {Tile(x, y) : x \in 0..(cols - 1), y \in 0..(rows - 1)}

\* The world paths handed to optimizePixelPath: a start at the center of a
\* tile or 5 pixels right of and below its corner (more than 30% of a tile from
\* the center), then centers of tiles.
WorldPaths ==
    LET centers == {gridToWorld(t.x, t.y) : t \in GridTiles}
        offCenter == {Point(t.x * tileSize + 5 * PerPixel, t.y * tileSize + 5 * PerPixel) :
                         t \in GridTiles}
    IN  {<<>>} \cup {<<first>> \o rest : first \in centers \cup offCenter,
                                         rest \in SeqsUpTo(centers, MaxWaypoints - 1)}

\* The segment caps handed to optimizePixelPath: one binding, and the default.
SegmentCaps == {1, 8}

\* A call of a simplifier and what it returned.
Simplified(by, of, cap, to) == [by |-> by, of |-> of, cap |-> cap, to |-> to]

\* smoothPath(grid, path) called directly.
SmoothPath(path) ==
    /\ simplified' = Some(Simplified("smoothPath", path, 0, smoothPath(path)))
    /\ UNCHANGED <<gridVars, pc, searchVars, smoothed, pixelVars, units, loopVars>>

\* optimizePixelPath(grid, path, maxSegmentTiles) called directly.
OptimizePixelPath(path, maxSegmentTiles) ==
    /\ simplified' = Some(Simplified("optimizePixelPath", path, maxSegmentTiles,
                                     optimizePixelPath(path, maxSegmentTiles)))
    /\ UNCHANGED <<gridVars, pc, searchVars, smoothed, pixelVars, units, loopVars>>

\* The grid is edited, then one of the simplifiers is called on it.
NextSimplify ==
    \/ /\ simplified = Null
       /\ \E x \in -1..cols, y \in -1..rows, value \in {0, 1} : SetTile(x, y, value)
    \/ /\ simplified = Null
       /\ \E path \in SeqsUpTo(GridTiles, MaxWaypoints) : SmoothPath(path)
    \/ /\ simplified = Null
       /\ \E path \in WorldPaths, maxSegmentTiles \in SegmentCaps :
              OptimizePixelPath(path, maxSegmentTiles)

SpecSimplify == Init /\ [][NextSimplify]_vars

(***************************************************************************)
(* Two units on a field, commanded between the frames of the game loop     *)
(***************************************************************************)

\* The frames run and the commands given in one behavior.
MaxFrames == 2
MaxCommands == 2

\* The deltaTime of a frame, in milliseconds: a display frame, and a long
\* pause that carries a timer over its threshold.
DeltaTimes == {16, 600}

\* A position given in pixels.
Pixels(x, y) == Point(x * PerPixel, y * PerPixel)

\* The positions commands are given for: the centers of the tiles (2,0), (2,2)
\* and (1,1), a position in the tile (0,0) and a position outside the grid.
CommandPoints ==
    {Pixels(125, 25), Pixels(125, 125), Pixels(75, 75), Pixels(30, 40), Pixels(-5, -5)}

\* The paths handed to setPath.
UnitPaths ==
    {<<>>, <<Pixels(125, 25)>>, <<Pixels(25, 125), Pixels(125, 125)>>, <<Pixels(26, 25)>>}

\* A field of MaxCols by MaxRows tiles, its tile (1,1) blocked or not, and two
\* units, the second within or out of the attack range of the first, or out
\* of it and 1 pixel from touching the tile (1,1).
InitUnits ==
    /\ cols = MaxCols
    /\ rows = MaxRows
    /\ \E value \in {0, 1} :
           tiles = [p \in (0..(MaxCols - 1)) \X (0..(MaxRows - 1)) |->
                       IF p = <<1, 1>> THEN value ELSE 0]
    /\ pc = "idle"
    /\ NoSearch
    /\ smoothed = Null
    /\ startWorld = Tile(0, 0) /\ goalWorld = Tile(0, 0) /\ pixelPath = Null
    /\ simplified = Null
    /\ \E p \in {Pixels(45, 25), Pixels(75, 25), Pixels(75, 32)} :
           units = <<NewUnit(25 * PerPixel, 25 * PerPixel), NewUnit(p.x, p.y)>>
    /\ updating = 0 /\ frameTime = 0 /\ frames = 0 /\ commands = 0 /\ called = Null
    /\ cancelled = {}

\* An operation called for the units who, with the numbers x and y.
Called(op, who, x, y) == Some([op |-> op, who |-> who, x |-> x, y |-> y])

\* A command is handled between two frames.
Command ==
    /\ updating = 0
    /\ commands < MaxCommands
    /\ commands' = commands + 1
    /\ UNCHANGED <<gridVars, pc, searchVars, smoothed, simplified, updating, frameTime, frames>>

\* units[i].setPath(path)
SetPath(i, path) ==
    /\ Command
    /\ units' = [units EXCEPT ![i] = setPath(units[i], path)]
    /\ called' = Called("setPath", {i}, Len(path), 0)
    /\ cancelled' = cancelled \ {i}
    /\ UNCHANGED pixelVars

\* units[i].setTarget(x, y)
SetTarget(i, x, y) ==
    /\ Command
    /\ units' = [units EXCEPT ![i] = setTarget(units[i], x, y)]
    /\ called' = Called("setTarget", {i}, x, y)
    /\ cancelled' = cancelled \ {i}
    /\ UNCHANGED pixelVars

\* units[i].setAttackTarget(target)
SetAttackTarget(i, target) ==
    /\ Command
    /\ units' = [units EXCEPT ![i] = setAttackTarget(units[i], i, target)]
    /\ called' = Called("setAttackTarget", {i}, IF target = Null THEN 0 ELSE Value(target), 0)
    /\ cancelled' = IF target # Null /\ Value(target) # i THEN cancelled \ {i} ELSE cancelled
    /\ UNCHANGED pixelVars

\* units[i].cancelMove()
CancelMove(i) ==
    /\ Command
    /\ units' = [units EXCEPT ![i] = cancelMove(units[i])]
    /\ called' = Called("cancelMove", {i}, 0, 0)
    /\ cancelled' = IF isAlive(units[i]) THEN cancelled \cup {i} ELSE cancelled
    /\ UNCHANGED pixelVars

\* units[i].takeDamage(amount)
TakeDamage(i, amount) ==
    /\ Command
    /\ units' = [units EXCEPT ![i] = takeDamage(units[i], amount)]
    /\ called' = Called("takeDamage", {i}, amount, 0)
    /\ UNCHANGED cancelled
    /\ UNCHANGED pixelVars

\* units[i].heal(amount)
Heal(i, amount) ==
    /\ Command
    /\ units' = [units EXCEPT ![i] = heal(units[i], amount)]
    /\ called' = Called("heal", {i}, amount, 0)
    /\ UNCHANGED <<pixelVars, cancelled>>

\* findPixelPath(game.grid, startW, goalW) called on its own.
FindPixelPath(startW, goalW) ==
    /\ Command
    /\ startWorld' = startW
    /\ goalWorld' = goalW
    /\ pixelPath' = Some(findPixelPath(startW, goalW))
    /\ called' = Called("findPixelPath", {}, goalW.x, goalW.y)
    /\ UNCHANGED cancelled
    /\ UNCHANGED units

\* moveUnitsToPosition(selected, worldX, worldY) of main.js, selected the
\* indices of the selected units; the last call of findPixelPath is recorded.
MoveUnitsToPosition(selected, worldX, worldY) ==
    LET targetTile == worldToGrid(worldX, worldY)
        startOf(i) == Point(units[i].x, units[i].y)
        goalW == Point(worldX, worldY)
        last == CHOOSE i \in selected : \A j \in selected : j <= i
    IN  /\ Command
        /\ called' = Called("moveUnitsToPosition", selected, worldX, worldY)
        /\ IF ~isWalkable(targetTile.x, targetTile.y) \/ selected = {}
           THEN UNCHANGED <<units, pixelVars, cancelled>>
           ELSE \E pixelPathOf \in {[i \in selected |-> findPixelPath(startOf(i), goalW)]} :
                    /\ \E optimized \in
                           {[i \in {j \in selected : pixelPathOf[j] # Null} |->
                                optimizePixelPath(Value(pixelPathOf[i]), 8)]} :
                           units' = [i \in 1..Len(units) |->
                                        IF i \in DOMAIN optimized
                                        THEN setPath(units[i], optimized[i])
                                        ELSE units[i]]
                    /\ startWorld' = startOf(last)
                    /\ goalWorld' = goalW
                    /\ pixelPath' = Some(pixelPathOf[last])
                    /\ cancelled' = {i \in cancelled :
                                        i \notin selected \/ pixelPathOf[i] = Null}

\* One step of update(deltaTime) of main.js: the first unit of a new frame of
\* dt milliseconds, or the next unit of the running frame, is updated.
Update(dt) ==
    LET i == IF updating = 0 THEN 1 ELSE updating
    IN  /\ units # <<>>
        /\ IF updating = 0 THEN frames < MaxFrames ELSE dt = frameTime
        /\ units' = update(units, i, dt)
        /\ updating' = IF i = Len(units) THEN 0 ELSE i + 1
        /\ frameTime' = IF i = Len(units) THEN 0 ELSE dt
        /\ frames' = IF updating = 0 THEN frames + 1 ELSE frames
        /\ called' = Called("update", {i}, dt, 0)
        /\ UNCHANGED <<gridVars, pc, searchVars, smoothed, pixelVars, simplified, commands,
                       cancelled>>

NextUnits ==
    \/ \E i \in 1..Len(units), path \in UnitPaths : SetPath(i, path)
    \/ \E i \in 1..Len(units) :
           \/ \E y \in {25, 125} : SetTarget(i, 125 * PerPixel, y * PerPixel)
           \/ SetTarget(i, units[i].x + PerPixel, units[i].y)
    \/ \E i \in 1..Len(units), j \in 0..Len(units) :
           SetAttackTarget(i, IF j = 0 THEN Null ELSE Some(j))
    \/ \E i \in 1..Len(units) : CancelMove(i)
    \/ \E i \in 1..Len(units), amount \in {attackDamage, maxHealth} : TakeDamage(i, amount)
    \/ \E i \in 1..Len(units) : Heal(i, attackDamage)
    \/ \E i \in 1..Len(units), goalW \in CommandPoints :
           FindPixelPath(Point(units[i].x, units[i].y), goalW)
    \/ \E selected \in {{1}, 1..Len(units)}, goalW \in CommandPoints :
           MoveUnitsToPosition(selected, goalW.x, goalW.y)
    \/ \E dt \in DeltaTimes : Update(dt)

SpecUnits == InitUnits /\ [][NextUnits]_vars

(***************************************************************************)
(* findPixelPath called between any two tiles of an edited grid            *)
(***************************************************************************)

\* The start pixels: 5 pixels right of and below the corner of each tile in
\* and around the grid.
StartPixels ==
    {Point(t.x * tileSize + 5 * PerPixel, t.y * tileSize + 5 * PerPixel) : t \in Coordinates}

\* The goal pixels: 45 pixels right of and 30 pixels below the corner of each
\* tile in and around the grid.
GoalPixels ==
    {Point(t.x * tileSize + 45 * PerPixel, t.y * tileSize + 30 * PerPixel) : t \in Coordinates}

\* The grid is edited, then findPixelPath is called on it.
NextPixel ==
    \/ /\ pixelPath = Null
       /\ \E x \in -1..cols, y \in -1..rows, value \in {0, 1} : SetTile(x, y, value)
    \/ /\ pixelPath = Null
       /\ \E startW \in StartPixels, goalW \in GoalPixels : FindPixelPath(startW, goalW)

SpecPixel == Init /\ [][NextPixel]_vars

(***************************************************************************)
(* Two units ordered to one destination on a field without obstacles, and  *)
(* whole frames of 16 milliseconds without end                             *)
(***************************************************************************)

\* update(deltaTime) of main.js, from the unit at index i on: every unit is
\* updated in array order, each among the units as the earlier updates of the
\* frame left them.  (No unit dies here, so none is removed.)
RECURSIVE forEachUpdate(_, _, _)
forEachUpdate(us, i, deltaTime) ==
    IF i > Len(us) THEN us
    ELSE CHOOSE after \in {forEachUpdate(next, i + 1, deltaTime) :
                              next \in {update(us, i, deltaTime)}} : TRUE

\* The frame time of a display of 60 frames per second, in milliseconds.
FrameDelta == 16

\* A field of MaxCols by MaxRows tiles without obstacles and two units, each
\* at one of its starting positions.
InitConverge ==
    /\ cols = MaxCols
    /\ rows = MaxRows
    /\ tiles = NewTiles(MaxCols, MaxRows)
    /\ pc = "idle"
    /\ NoSearch
    /\ smoothed = Null
    /\ startWorld = Tile(0, 0) /\ goalWorld = Tile(0, 0) /\ pixelPath = Null
    /\ simplified = Null
    /\ \E first \in {Pixels(25, 25), Pixels(25, 75)},
          second \in {Pixels(45, 25), Pixels(125, 125), Pixels(125, 75), Pixels(25, 125)} :
           units = <<NewUnit(first.x, first.y), NewUnit(second.x, second.y)>>
    /\ updating = 0 /\ frameTime = 0 /\ frames = 0 /\ commands = 0 /\ called = Null
    /\ cancelled = {}

\* One whole frame: update(FrameDelta) of main.js.  The frames are not counted:
\* the run has no last frame.
UpdateFrame ==
    /\ commands = 1
    /\ units' = forEachUpdate(units, 1, FrameDelta)
    /\ called' = Called("update", 1..Len(units), FrameDelta, 0)
    /\ UNCHANGED <<gridVars, pc, searchVars, smoothed, pixelVars, simplified, updating,
                   frameTime, frames, commands, cancelled>>

\* The order sends both units to the center of the tile (1,1) or (2,0) or to
\* a position off the center of the tile (1,2); then the frames run.
NextConverge ==
    \/ \E goalW \in {Pixels(75, 75), Pixels(125, 25), Pixels(60, 110)} :
           commands = 0 /\ MoveUnitsToPosition(1..Len(units), goalW.x, goalW.y)
    \/ UpdateFrame

SpecConverge == InitConverge /\ [][NextConverge]_vars /\ WF_vars(UpdateFrame)

(***************************************************************************)
(* A unit on a path, a tile set blocked on its way, and whole frames       *)
(* without end                                                             *)
(***************************************************************************)

\* The first unit in the tile (0,0), the second out of its way.
InitBlocked ==
    /\ InitConverge
    /\ units[1].y = 25 * PerPixel
    /\ units[2].x = 125 * PerPixel /\ units[2].y = 75 * PerPixel

\* The first unit is given a path through the tile (1,1) or into the tile
\* (2,0); while it is on the tile where it started, the tile (1,1) or (1,0) is
\* set blocked; the frames run before and after.
NextBlocked ==
    \/ \E path \in {<<Pixels(75, 75), Pixels(125, 125)>>, <<Pixels(125, 25)>>} :
           commands = 0 /\ SetPath(1, path)
    \/ \E tile \in {Tile(1, 1), Tile(1, 0)} :
           /\ commands = 1
           /\ Blocked(tiles) = {}
           /\ worldToGrid(units[1].x, units[1].y) = Tile(0, 0)
           /\ units[1].x <= 35 * PerPixel
           /\ SetTile(tile.x, tile.y, 1)
    \/ UpdateFrame

SpecBlocked == InitBlocked /\ [][NextBlocked]_vars /\ WF_vars(UpdateFrame)

(***************************************************************************)
(* A unit sent along a path into walls, and whole frames of 16             *)
(* milliseconds without end                                                *)
(***************************************************************************)

\* The paths of the first unit.  Between walls: waypoints in one line through
\* the tile (1,0), far from and near to the unit, paths that turn, and a path
\* whose first waypoints are 1 and 3 pixels away.  On the open field: a
\* waypoint that takes the unit past the second one.
WalledPaths ==
    IF Blocked(tiles) = {}
    THEN {<<Pixels(125, 100)>>, <<Pixels(100, 125)>>}
    ELSE {<<Pixels(75, 25), Pixels(100, 25), Pixels(125, 25), Pixels(140, 25)>>,
          <<Pixels(75, 25), Pixels(125, 25), Pixels(140, 25)>>,
          <<Pixels(60, 25), Pixels(65, 25), Pixels(70, 25), Pixels(75, 25)>>,
          <<Pixels(75, 25), Pixels(125, 25), Pixels(125, 75), Pixels(125, 125)>>,
          <<Pixels(75, 75), Pixels(125, 125)>>,
          <<Pixels(26, 25), Pixels(28, 26), Pixels(25, 125)>>}

\* A field of MaxCols by MaxRows tiles.  Either walls around the tile (0,0),
\* on the tile (1,1) or on the tile (1,0), a unit in the tile (0,0) and a unit
\* in the tile (2,2); or no wall, a unit in the tile (1,1) and a unit that
\* all but touches it (positions in 1/100 pixel).
InitWalled ==
    /\ cols = MaxCols
    /\ rows = MaxRows
    /\ pc = "idle"
    /\ NoSearch
    /\ smoothed = Null
    /\ startWorld = Tile(0, 0) /\ goalWorld = Tile(0, 0) /\ pixelPath = Null
    /\ simplified = Null
    /\ \/ /\ \E walls \in {{<<1, 0>>, <<0, 1>>, <<1, 1>>}, {<<1, 1>>}, {<<1, 0>>}} :
                 tiles = [p \in (0..(MaxCols - 1)) \X (0..(MaxRows - 1)) |->
                             IF p \in walls THEN 1 ELSE 0]
          /\ units = <<NewUnit(25 * PerPixel, 25 * PerPixel),
                       NewUnit(125 * PerPixel, 125 * PerPixel)>>
       \/ /\ tiles = NewTiles(MaxCols, MaxRows)
          /\ \E second \in {Point(7825, 9475), Point(9450, 8050),
                             Point(7950, 9450), Point(9250, 8525)} :
                 units = <<NewUnit(75 * PerPixel, 75 * PerPixel),
                           NewUnit(second.x, second.y)>>
    /\ updating = 0 /\ frameTime = 0 /\ frames = 0 /\ commands = 0 /\ called = Null
    /\ cancelled = {}

\* The first unit is given its path; then the frames run.
NextWalled ==
    \/ \E path \in WalledPaths : commands = 0 /\ SetPath(1, path)
    \/ UpdateFrame

SpecWalled == InitWalled /\ [][NextWalled]_vars /\ WF_vars(UpdateFrame)

(***************************************************************************)
(* The two conversions of Grid called on tiles and positions in and        *)
(* around the grid                                                         *)
(***************************************************************************)

\* The tile sizes of the grids converted on, in 1/100 pixel.
TileSizes == {1 * PerPixel, 7 * PerPixel, tileSize, 64 * PerPixel}

\* The tiles converted: in the grid, left of and above it, beyond it.
ConvertedTiles == {Tile(x, y) : x \in {-3, -1, 0, 1, 40}, y \in {-2, 0, 7}}

\* The positions converted, in 1/100 pixel: on both sides of tile borders,
\* at centers, left of and above the grid.
ConvertedPositions ==
    {Point(x, y) : x \in {-5001, -5000, -1, 0, 2499, 2500, 4999, 5000, 12345},
                   y \in {-100, 0, 4999, 6400}}

\* grid.worldToGrid(worldX, worldY) is called and its result kept.
WorldToGrid(worldX, worldY) ==
    /\ startWorld' = Point(worldX, worldY)
    /\ goal' = worldToGrid(worldX, worldY)
    /\ called' = Called("worldToGrid", {}, worldX, worldY)
    /\ UNCHANGED <<cols, rows, tiles, pc, start, diagonal, nodes, openList, closedSet,
                   iterations, result, smoothed, goalWorld, pixelPath, simplified,
                   units, updating, frameTime, frames, commands, cancelled>>

\* grid.gridToWorld(gridX, gridY) is called and its result kept.
GridToWorld(gridX, gridY) ==
    /\ start' = Tile(gridX, gridY)
    /\ goalWorld' = gridToWorld(gridX, gridY)
    /\ called' = Called("gridToWorld", {}, gridX, gridY)
    /\ UNCHANGED <<cols, rows, tiles, pc, goal, diagonal, nodes, openList, closedSet,
                   iterations, result, smoothed, startWorld, pixelPath, simplified,
                   units, updating, frameTime, frames, commands, cancelled>>

NextConvert ==
    \/ \E p \in ConvertedPositions : WorldToGrid(p.x, p.y)
    \/ \E t \in ConvertedTiles : GridToWorld(t.x, t.y)

SpecConvert == Init /\ [][NextConvert]_vars

(***************************************************************************)
(* findNearestWalkable called on an edited grid, for targets in the grid   *)
(* and up to four tiles outside it                                         *)
(***************************************************************************)

\* findNearestWalkable(grid, targetX, targetY): the target when it is
\* walkable, otherwise the first walkable tile in the order of the three
\* loops (radius, then dx, then dy, on the perimeter of the radius), or null.
findNearestWalkable(targetX, targetY) ==
    IF isWalkable(targetX, targetY) THEN Some(Tile(targetX, targetY))
    ELSE LET perimeter == {c \in (1..(Max(cols, rows) - 1)) \X (-MaxCols..MaxCols)
                                       \X (-MaxCols..MaxCols) :
                               /\ Abs(c[2]) <= c[1] /\ Abs(c[3]) <= c[1]
                               /\ (Abs(c[2]) = c[1] \/ Abs(c[3]) = c[1])}
             found == {c \in perimeter : isWalkable(targetX + c[2], targetY + c[3])}
             Before(c, d) ==
                 \/ c[1] < d[1]
                 \/ c[1] = d[1] /\ c[2] < d[2]
                 \/ c[1] = d[1] /\ c[2] = d[2] /\ c[3] <= d[3]
         IN  IF found = {} THEN Null
             ELSE LET first == CHOOSE c \in found : \A d \in found : Before(c, d)
                  IN  Some(Tile(targetX + first[2], targetY + first[3]))

\* A call findNearestWalkable(grid, targetX, targetY) and its return value.
FindNearestWalkable(targetX, targetY) ==
    /\ called = Null
    /\ start' = Tile(targetX, targetY)
    /\ result' = findNearestWalkable(targetX, targetY)
    /\ called' = Called("findNearestWalkable", {}, targetX, targetY)
    /\ UNCHANGED <<cols, rows, tiles, pc, goal, diagonal, nodes, openList, closedSet,
                   iterations, smoothed, startWorld, goalWorld, pixelPath, simplified,
                   units, updating, frameTime, frames, commands, cancelled>>

\* The grid is edited, then findNearestWalkable is called on it.
NextNearest ==
    \/ /\ called = Null
       /\ \E x \in -1..cols, y \in -1..rows, value \in {0, 1} : SetTile(x, y, value)
    \/ \E x \in -4..(MaxCols + 3), y \in -4..(MaxRows + 3) : FindNearestWalkable(x, y)

SpecNearest == Init /\ [][NextNearest]_vars

(***************************************************************************)
(* An open field of 10 by 10 tiles searched from its corner                *)
(***************************************************************************)

InitField ==
    /\ cols = 10
    /\ rows = 10
    /\ tiles = NewTiles(10, 10)
    /\ pc = "idle"
    /\ NoSearch
    /\ smoothed = Null
    /\ NoWorld

NextField ==
    \/ \E g \in GridTiles, diag \in BOOLEAN : FindPathToReturn(Tile(0, 0), g, diag)
    \/ Smooth
    \/ Return

SpecField == InitField /\ [][NextField]_vars

(***************************************************************************)
(* A large field with two corridors from one start to one goal             *)
(***************************************************************************)

\* A diagonal corridor of n diagonal steps from (x0, y0) in direction (dx, dy):
\* its tiles and the two tiles beside each step, which the corner rule of
\* getNeighbors needs walkable.
OnBand(x, y, x0, y0, dx, dy, n) ==
    LET u == dx * (x - x0)
        v == dy * (y - y0)
    IN  \/ u = v /\ u >= 0 /\ u <= n
        \/ u = v + 1 /\ v >= 0 /\ v <= n - 1
        \/ v = u + 1 /\ u >= 0 /\ u <= n - 1

\* The walkable tiles of the field.  From the start (10, 47) one corridor runs
\* east along row 47 and north along column 50, then down the long diagonal
\* to the goal (109, 59); the other leaves the start south-west, turns
\* south-east, then north-east, and enters the goal from (109, 60).
MazeWalkable(x, y) ==
    \/ y = 47 /\ x >= 10 /\ x <= 50
    \/ x = 50 /\ y >= 0 /\ y <= 47
    \/ OnBand(x, y, 50, 0, 1, 1, 59)
    \/ OnBand(x, y, 10, 47, -1, 1, 10)
    \/ OnBand(x, y, 0, 57, 1, 1, 56)
    \/ OnBand(x, y, 56, 113, 1, -1, 53)
    \/ x = 109 /\ y = 60

MazeStart == Tile(10, 47)
MazeGoal == Tile(109, 59)

\* The field after new Grid(...) with 110 x 114 tiles and a setTile(x, y, 1)
\* for every tile off the corridors.
InitMaze ==
    /\ cols = 110
    /\ rows = 114
    /\ tiles = [p \in (0..109) \X (0..113) |-> IF MazeWalkable(p[1], p[2]) THEN 0 ELSE 1]
    /\ pc = "idle"
    /\ NoSearch
    /\ smoothed = Null
    /\ NoWorld

NextMaze ==
    \/ FindPath(MazeStart, MazeGoal, TRUE)
    \/ LoopIteration
    \/ FindPathToReturn(MazeStart, MazeGoal, TRUE)

SpecMaze == InitMaze /\ [][NextMaze]_vars

(***************************************************************************)
(* The cost of a path and the least cost of any path                       *)
(***************************************************************************)

\* The cost findPath charges for the steps of path from its i-th to its j-th tile, summed in
\* two halves.
RECURSIVE CostBetween(_, _, _)
CostBetween(path, i, j) ==
    IF j <= i THEN 0
    ELSE IF j = i + 1 THEN moveCost(path[i], path[j])
    ELSE LET m == (i + j) \div 2
         IN  CostBetween(path, i, m) + CostBetween(path, m, j)

PathCost(path) == CostBetween(path, 1, Len(path))

WalkableTiles == {Tile(p[1], p[2]) : p \in {q \in DOMAIN tiles : isWalkable(q[1], q[2])}}

Unreachable == OrthogonalCost * 10000

MinOf(S) == CHOOSE m \in S : \A n \in S : m <= n

Elements(seq) == {seq[i] : i \in 1..Len(seq)}

\* The tiles around tile t.
Around(t) == {Tile(t.x + dx, t.y + dy) : dx \in {-1, 0, 1}, dy \in {-1, 0, 1}} \ {t}

\* One round of Bellman-Ford towards one tile on the graph of getNeighbors
\* (adj maps each walkable tile to its neighbors): d maps each walkable tile
\* to the least cost found so far of a path from it to that tile, frontier
\* holds the tiles whose cost the last round lowered.
Relax(r, adj) ==
    LET Via(t) == r.frontier \cap Elements(adj[t])
        Offer(t) == MinOf({r.d[t]} \cup {moveCost(t, f) + r.d[f] : f \in Via(t)})
        lowered == {t \in (UNION {Around(f) : f \in r.frontier}) \cap DOMAIN r.d :
                       Offer(t) < r.d[t]}
    IN  [d |-> [t \in lowered |-> Offer(t)] @@ r.d, frontier |-> lowered]

\* n rounds, taken in two halves.
RECURSIVE RelaxRounds(_, _, _)
RelaxRounds(r, adj, n) ==
    IF r.frontier = {} \/ n = 0 THEN r
    ELSE IF n = 1 THEN Relax(r, adj)
    ELSE RelaxRounds(RelaxRounds(r, adj, n \div 2), adj, n - (n \div 2))

\* The least cost of a path from s to g, Unreachable when there is none.
MinCost(s, g, diag) ==
    LET adj == [t \in WalkableTiles |-> getNeighbors(t.x, t.y, diag)] @@ <<>>
        d0 == [t \in WalkableTiles |-> IF t = g THEN 0 ELSE Unreachable] @@ <<>>
    IN  RelaxRounds([d |-> d0, frontier |-> {g}], adj, Cardinality(WalkableTiles)).d[s]

(***************************************************************************)
(* Claims                                                                  *)
(***************************************************************************)

\* C1: whenever findPath returns a path, the cost of the path (1 per
\* orthogonal step, 1.414 per diagonal step) is the least cost of any path
\* from start to goal in the graph of getNeighbors.
C1_ShortestPath ==
    (pc = "done" /\ result # Null) =>
        PathCost(Value(result)) = MinCost(start, goal, diagonal)

\* A returned path in the variables.
Returned == pc = "done" /\ result # Null

\* C2: every path findPath returns starts at start, ends at goal, holds
\* walkable tiles only, steps from each tile to one of its getNeighbors, and
\* holds no tile twice.
C2_WellFormed ==
    Returned =>
        LET path == Value(result)
        IN  /\ Len(path) >= 1
            /\ path[1] = start
            /\ path[Len(path)] = goal
            /\ \A i \in 1..Len(path) : isWalkable(path[i].x, path[i].y)
            /\ \A i \in 1..(Len(path) - 1) :
                   path[i + 1] \in Elements(getNeighbors(path[i].x, path[i].y, diagonal))
            /\ \A i, j \in 1..Len(path) : path[i] = path[j] => i = j

\* A returned path of five tiles that goes round a blocked tile.
C2_Witness ==
    /\ Returned
    /\ Len(Value(result)) >= 5
    /\ Blocked(tiles) # {}

\* C3: findPath returns null, before any iteration, whenever start or goal is
\* not walkable, outside the grid included.
C3_NullWhenNotWalkable ==
    (pc = "done" /\ (~isWalkable(start.x, start.y) \/ ~isWalkable(goal.x, goal.y))) =>
        result = Null /\ iterations = 0

\* A call that returned null for a start outside the grid and a walkable goal.
C3_Witness ==
    /\ pc = "done" /\ result = Null
    /\ ~isValidTile(start.x, start.y)
    /\ isWalkable(goal.x, goal.y)

Selected == openList[LowestF(nodes, openList, 1, Len(openList))]

\* C5: findPath terminates: the count of its loop never exceeds
\* 2 x cols x rows, every step of the call is an iteration that counts one
\* more or the return, so the loop makes at most that many iterations, and
\* the call returns null when it leaves the loop without having selected the
\* goal.
C5_Terminates ==
    /\ [](iterations <= maxIterations)
    /\ [](pc = "loop" => (LoopCondition(Current) \/ ENABLED LoopExit))
    /\ [][(pc = "loop" /\ pc' = "loop") => iterations' = iterations + 1]_vars
    /\ [][(pc = "loop" /\ pc' = "done" /\ ~(LoopCondition(Current) /\ Selected = goal))
              => result' = Null]_vars

\* A call that left its loop with the open list exhausted, the goal being
\* walkable and out of reach.
C5_Witness ==
    /\ pc = "done" /\ result = Null
    /\ iterations >= 2
    /\ openList = <<>>
    /\ isWalkable(goal.x, goal.y)

\* C6: on a grid without blocked tiles, for all tiles start and goal of the
\* grid, findPath returns a path whose number of steps is the Chebyshev
\* distance with diagonal movement and the Manhattan distance without.
C6_ObstacleFreeLength ==
    (pc = "done" /\ Blocked(tiles) = {}
        /\ isValidTile(start.x, start.y) /\ isValidTile(goal.x, goal.y)) =>
        /\ result # Null
        /\ Len(Value(result)) - 1 =
               IF diagonal THEN Max(Abs(start.x - goal.x), Abs(start.y - goal.y))
               ELSE Abs(start.x - goal.x) + Abs(start.y - goal.y)

\* A diagonal search on a grid without blocked tiles whose Chebyshev distance
\* (2) differs from its Manhattan distance (3).
C6_Witness ==
    /\ Returned
    /\ Blocked(tiles) = {}
    /\ diagonal
    /\ Abs(start.x - goal.x) = 2 /\ Abs(start.y - goal.y) = 1

\* C7: during one findPath call no tile is expanded twice: no tile of the
\* closed set is in the open list, the open list holds no tile twice, and
\* the closed set holds one tile per iteration made.
C7_NoDuplicateExpansion ==
    (pc \in {"loop", "done"}) =>
        /\ \A i \in 1..Len(openList) : openList[i] \notin closedSet
        /\ \A i, j \in 1..Len(openList) : openList[i] = openList[j] => i = j
        /\ (pc = "loop") => Cardinality(closedSet) = iterations

\* A call that has expanded three tiles and is about to select a tile next to
\* a closed one.
C7_Witness ==
    /\ pc = "loop"
    /\ Cardinality(closedSet) >= 3
    /\ Len(openList) > 0
    /\ Elements(getNeighbors(Selected.x, Selected.y, diagonal)) \cap closedSet # {}

\* The coordinates up to two tiles beyond each edge of the grid.
Beyond == {Tile(x, y) : x \in -2..(cols + 1), y \in -2..(rows + 1)}

\* C8: after any sequence of setTile calls, isWalkable is false for every
\* coordinate outside the grid, the tile array holds the tiles of the grid
\* and no other, a setTile outside the grid changes no cell, and on a grid
\* with cols = 0 or rows = 0 isWalkable is false everywhere and findPath
\* returns null.
C8_OutOfBoundsBlocked ==
    /\ \A t \in Beyond : ~isValidTile(t.x, t.y) => ~isWalkable(t.x, t.y)
    /\ DOMAIN tiles = (0..(cols - 1)) \X (0..(rows - 1))
    /\ \A t \in Beyond, value \in {0, 1} :
           ~isValidTile(t.x, t.y) => setTile(t.x, t.y, value) = tiles
    /\ (cols = 0 \/ rows = 0) =>
           /\ \A t \in Beyond : ~isWalkable(t.x, t.y)
           /\ pc \in {"idle", "done"}
           /\ result = Null

\* A path request on a grid with no columns and two rows, returned with null.
C8_Witness ==
    /\ cols = 0 /\ rows = 2
    /\ pc = "done" /\ result = Null
    /\ start # goal

\* The directions of getNeighbors, as sets.
Orthogonals == {Tile(0, -1), Tile(1, 0), Tile(0, 1), Tile(-1, 0)}
Diagonals == {Tile(1, -1), Tile(1, 1), Tile(-1, 1), Tile(-1, -1)}

\* C9: with diagonal movement getNeighbors of a tile t holds, once each, the
\* walkable orthogonal neighbors of t and exactly those diagonal neighbors d
\* that are walkable and have both tiles orthogonally adjacent to t on that
\* diagonal walkable; without it, the walkable orthogonal neighbors only.
C9_DiagonalRule ==
    \A t \in Beyond :
        LET Walkable(dirs) == {Tile(t.x + dir.x, t.y + dir.y) : dir \in
                                  {d \in dirs : isWalkable(t.x + d.x, t.y + d.y)}}
            open == {d \in Diagonals : isWalkable(t.x + d.x, t.y) /\ isWalkable(t.x, t.y + d.y)}
            with == getNeighbors(t.x, t.y, TRUE)
            without == getNeighbors(t.x, t.y, FALSE)
        IN  /\ Elements(with) = Walkable(Orthogonals) \cup Walkable(open)
            /\ Len(with) = Cardinality(Elements(with))
            /\ Elements(without) = Walkable(Orthogonals)
            /\ Len(without) = Cardinality(Elements(without))

\* A grid where (1, 1) is walkable and (1, 0) and (0, 1) are blocked: the
\* diagonal from (0, 0) is rejected.
C9_Witness ==
    /\ cols >= 2 /\ rows >= 2
    /\ isWalkable(0, 0) /\ isWalkable(1, 1)
    /\ ~isWalkable(1, 0) /\ ~isWalkable(0, 1)
    /\ Tile(1, 1) \notin Elements(getNeighbors(0, 0, TRUE))

\* C10: smoothPath is idempotent on the paths findPath returns: smoothing a
\* smoothed path gives the smoothed path.
C10_SmoothIdempotent ==
    Returned =>
        LET once == smoothPath(Value(result))
        IN  smoothPath(once) = once

\* C11: for every input path, smoothPath and optimizePixelPath each return a
\* subsequence of the input (same order, no new points) that begins with the
\* first waypoint of the input and ends with its last, so that the output
\* never has more waypoints than the input.
C11_Subsequence ==
    simplified # Null =>
        LET input == Value(simplified).of
            output == Value(simplified).to
        IN  /\ \E at \in [1..Len(output) -> 1..Len(input)] :
                   /\ \A i \in 1..Len(output) : output[i] = input[at[i]]
                   /\ \A i \in 1..(Len(output) - 1) : at[i] < at[i + 1]
            /\ Len(output) <= Len(input)
            /\ Len(input) > 0 =>
                   /\ Len(output) > 0
                   /\ output[1] = input[1]
                   /\ output[Len(output)] = input[Len(input)]

\* optimizePixelPath has dropped the middle waypoint of a path of
\* MaxWaypoints on a grid with a blocked tile.
C11_Witness ==
    /\ simplified # Null
    /\ Value(simplified).by = "optimizePixelPath"
    /\ Len(Value(simplified).of) = MaxWaypoints
    /\ Len(Value(simplified).to) = 2
    /\ Blocked(tiles) # {}

\* s and g are distinct tiles joined by a straight run of walkable tiles (a
\* row, a column or an exact diagonal) and no tile of the grid on or next to
\* the run is blocked.
ClearRun(s, g) ==
    LET dx == g.x - s.x
        dy == g.y - s.y
        n == Max(Abs(dx), Abs(dy))
        run == {Tile(s.x + (dx \div n) * i, s.y + (dy \div n) * i) : i \in 0..n}
    IN  /\ s # g
        /\ dx = 0 \/ dy = 0 \/ Abs(dx) = Abs(dy)
        /\ \A t \in run : isWalkable(t.x, t.y)
        /\ \A t \in GridTiles :
               (\E r \in run : Abs(t.x - r.x) <= 1 /\ Abs(t.y - r.y) <= 1)
                   => isWalkable(t.x, t.y)

C13_OpenField ==
    (pc = "done" /\ cols = 10 /\ rows = 10 /\ Blocked(tiles) = {} /\ TILE_SIZE = 50
        /\ start = Tile(0, 0) /\ goal = Tile(9, 9) /\ diagonal) =>
        /\ result # Null
        /\ Len(Value(result)) = 10
        /\ \A i \in 1..10 : Value(result)[i] = Tile(i - 1, i - 1)
        /\ PathCost(Value(result)) = 9 * DiagonalCost
        /\ LET smoothedPath == smoothPath(Value(result))
           IN  /\ Len(smoothedPath) = 2
               /\ gridToWorld(smoothedPath[1].x, smoothedPath[1].y)
                      = Point(25 * PerPixel, 25 * PerPixel)
               /\ gridToWorld(smoothedPath[2].x, smoothedPath[2].y)
                      = Point(475 * PerPixel, 475 * PerPixel)

\* The search from (0,0) to (9,9) has returned and its path was smoothed to
\* the two corners.
C13_Witness ==
    /\ pc = "done" /\ cols = 10 /\ rows = 10 /\ Blocked(tiles) = {}
    /\ start = Tile(0, 0) /\ goal = Tile(9, 9) /\ diagonal
    /\ smoothed = Some(<<Tile(0, 0), Tile(9, 9)>>)

\* C14: when the goal pixel lies in an unwalkable or out-of-bounds tile,
\* findPixelPath returns null, and moveUnitsToPosition never invokes setPath:
\* the path, the waypoint index and the movement target of every selected
\* unit are left unchanged.
C14_UnwalkableGoal ==
    /\ [](called # Null /\ Value(called).op = "findPixelPath" =>
            LET goalTile == worldToGrid(Value(called).x, Value(called).y)
            IN  ~isWalkable(goalTile.x, goalTile.y) => pixelPath = Some(Null))
    /\ [][called' # Null /\ Value(called').op = "moveUnitsToPosition" =>
            LET goalTile == worldToGrid(Value(called').x, Value(called').y)
            IN  ~isWalkable(goalTile.x, goalTile.y) =>
                    \A i \in Value(called').who :
                        /\ units'[i].path = units[i].path
                        /\ units'[i].currentWaypointIndex = units[i].currentWaypointIndex
                        /\ units'[i].targetX = units[i].targetX
                        /\ units'[i].targetY = units[i].targetY]_vars

\* A unit that follows a path was sent to the center of the blocked tile
\* (1,1) and has kept its path.
C14_Witness ==
    /\ called # Null
    /\ Value(called).op = "moveUnitsToPosition"
    /\ Value(called).who = {1}
    /\ worldToGrid(Value(called).x, Value(called).y) = Tile(1, 1)
    /\ ~isWalkable(1, 1)
    /\ units[1].path # <<>>

\* findPixelPath has returned for a start and a goal in the same tile.
SameTileCall ==
    /\ called # Null
    /\ Value(called).op = "findPixelPath"
    /\ worldToGrid(startWorld.x, startWorld.y) = worldToGrid(goalWorld.x, goalWorld.y)

\* C15 as stated: for every start and goal pixel that fall in the same tile
\* of the grid, findPixelPath returns exactly the two-point path [start, goal].
C15_SameTileAnyTile ==
    (/\ SameTileCall
     /\ isValidTile(worldToGrid(goalWorld.x, goalWorld.y).x,
                    worldToGrid(goalWorld.x, goalWorld.y).y)) =>
        pixelPath = Some(Some(<<startWorld, goalWorld>>))

\* C15: for every start and goal pixel that fall in the same walkable tile,
\* findPixelPath returns exactly the two-point path [start, goal], whatever
\* the tile search would return; when the tile is blocked or outside the grid
\* it returns null.
C15_SameTile ==
    SameTileCall =>
        LET tile == worldToGrid(goalWorld.x, goalWorld.y)
        IN  pixelPath = Some(IF isWalkable(tile.x, tile.y)
                             THEN Some(<<startWorld, goalWorld>>)
                             ELSE Null)

\* findPixelPath has returned [start, goal] for two different pixels of one
\* tile, on a grid with a blocked tile.
C15_Witness ==
    /\ SameTileCall
    /\ startWorld # goalWorld
    /\ pixelPath = Some(Some(<<startWorld, goalWorld>>))
    /\ Blocked(tiles) # {}

\* C16: whenever findPixelPath returns a path for start and goal in different
\* tiles, the path has at least 2 waypoints, its first waypoint is exactly the
\* start pixel, its last waypoint is exactly the goal pixel, and every
\* waypoint strictly between them is the center of a walkable tile on the
\* tile path returned by findPath.
C16_PixelPath ==
    (/\ called # Null
     /\ Value(called).op = "findPixelPath"
     /\ worldToGrid(startWorld.x, startWorld.y) # worldToGrid(goalWorld.x, goalWorld.y)
     /\ Value(pixelPath) # Null) =>
        LET path == Value(Value(pixelPath))
            gridPath == findPath(worldToGrid(startWorld.x, startWorld.y),
                                 worldToGrid(goalWorld.x, goalWorld.y), TRUE)
        IN  /\ Len(path) >= 2
            /\ path[1] = startWorld
            /\ path[Len(path)] = goalWorld
            /\ gridPath # Null
            /\ \A k \in 2..(Len(path) - 1) :
                   \E n \in 1..Len(Value(gridPath)) :
                       LET tile == Value(gridPath)[n]
                       IN  /\ isWalkable(tile.x, tile.y)
                           /\ path[k] = gridToWorld(tile.x, tile.y)

\* findPixelPath has returned a path with a waypoint between the start pixel
\* and the goal pixel.
C16_Witness ==
    /\ called # Null
    /\ Value(called).op = "findPixelPath"
    /\ Value(pixelPath) # Null
    /\ Len(Value(Value(pixelPath))) >= 3
    /\ Value(Value(pixelPath))[1] = startWorld
    /\ startWorld # gridToWorld(worldToGrid(startWorld.x, startWorld.y).x,
                                worldToGrid(startWorld.x, startWorld.y).y)

\* C17: in the output of optimizePixelPath(grid, path, maxSegmentTiles),
\* every segment that joins two waypoints which were not consecutive in the
\* input has length at most maxSegmentTiles * tileSize and passes
\* hasLineOfSightWorld.
C17_SkippedSegments ==
    (simplified # Null /\ Value(simplified).by = "optimizePixelPath") =>
        LET input == Value(simplified).of
            output == Value(simplified).to
            maxSegmentLength == Value(simplified).cap * tileSize
        IN  \E at \in [1..Len(output) -> 1..Len(input)] :
                /\ \A k \in 1..Len(output) : output[k] = input[at[k]]
                /\ \A k \in 1..(Len(output) - 1) :
                       /\ at[k] < at[k + 1]
                       /\ at[k] + 1 < at[k + 1] =>
                              /\ DistanceSquared(output[k], output[k + 1])
                                     <= maxSegmentLength * maxSegmentLength
                              /\ hasLineOfSightWorld(output[k], output[k + 1])

\* optimizePixelPath has skipped the middle waypoint of three under a cap of
\* one tile, on a grid with a blocked tile: the two ends are one tile apart.
C17_Witness ==
    /\ simplified # Null
    /\ Value(simplified).by = "optimizePixelPath"
    /\ Value(simplified).cap = 1
    /\ Len(Value(simplified).of) = 3
    /\ Len(Value(simplified).to) = 2
    /\ Value(simplified).to[1] # Value(simplified).to[2]
    /\ Value(simplified).of[2] # Value(simplified).of[1]
    /\ Value(simplified).of[2] # Value(simplified).of[3]
    /\ Blocked(tiles) # {}

\* C18 as stated: after setPath(path) returns, the path of the unit is path,
\* its waypoint index is 0, it has no attack target, its stuck, progress and
\* standing-still timers are 0 and, for a non-empty path, its movement target
\* is path[0].
C18_SetPathAnyPath ==
    [][\A i \in 1..Len(units), path \in UnitPaths :
           SetPath(i, path) =>
               /\ units'[i].path = path
               /\ units'[i].currentWaypointIndex = 0
               /\ units'[i].attackTarget = Null
               /\ units'[i].stuckTimer = 0
               /\ units'[i].progressTimer = 0
               /\ units'[i].standingStillTimer = 0
               /\ Len(path) > 0 =>
                      /\ units'[i].targetX = path[1].x
                      /\ units'[i].targetY = path[1].y]_vars

\* C18: after setPath(path) returns, the path of the unit is path and its
\* waypoint index is 0; for a non-empty path it has no attack target, its
\* stuck, progress and standing-still timers are 0, no distance to a waypoint
\* is recorded and its movement target is path[0]; for an empty path its
\* attack target, timers and movement target are as they were.
C18_SetPath ==
    [][\A i \in 1..Len(units), path \in UnitPaths :
           SetPath(i, path) =>
               /\ units'[i].path = path
               /\ units'[i].currentWaypointIndex = 0
               /\ Len(path) > 0 =>
                      /\ units'[i].attackTarget = Null
                      /\ units'[i].stuckTimer = 0
                      /\ units'[i].progressTimer = 0
                      /\ units'[i].standingStillTimer = 0
                      /\ units'[i].lastDistanceToWaypoint = Infinity
                      /\ units'[i].targetX = path[1].x
                      /\ units'[i].targetY = path[1].y
               /\ Len(path) = 0 =>
                      /\ units'[i].attackTarget = units[i].attackTarget
                      /\ units'[i].stuckTimer = units[i].stuckTimer
                      /\ units'[i].progressTimer = units[i].progressTimer
                      /\ units'[i].standingStillTimer = units[i].standingStillTimer
                      /\ units'[i].targetX = units[i].targetX
                      /\ units'[i].targetY = units[i].targetY]_vars

\* setPath was called with a path of two waypoints for the first unit after
\* it had left its place under an earlier command, and the unit heads for the
\* first waypoint.
C18_Witness ==
    /\ called # Null
    /\ Value(called).op = "setPath"
    /\ Value(called).who = {1}
    /\ units[1].path = <<Pixels(25, 125), Pixels(125, 125)>>
    /\ units[1].x # 25 * PerPixel
    /\ units[1].targetX = 25 * PerPixel
    /\ units[1].targetY = 125 * PerPixel

\* C19: immediately after setAttackTarget(t) returns, t a living unit other
\* than the unit itself, the path of the unit is empty and its waypoint index
\* is 0; and no later update resumes the old path: while the attack target
\* stays, the path stays empty.
C19_AttackDiscardsPath ==
    \A i \in 1..Len(units) :
        (/\ units[i].attackTarget # Null
         /\ isAlive(units[i])
         /\ isAlive(units[Value(units[i].attackTarget)])) =>
            /\ units[i].path = <<>>
            /\ units[i].currentWaypointIndex = 0

\* What cancelMove leaves of a unit: no path, the movement target at the
\* position, the timers at 0 and the state idle.
Cancelled(u) ==
    /\ u.path = <<>>
    /\ u.currentWaypointIndex = 0
    /\ u.targetX = u.x
    /\ u.targetY = u.y
    /\ u.stuckTimer = 0
    /\ u.progressTimer = 0
    /\ u.standingStillTimer = 0
    /\ u.state = "idle"

\* C20 as stated: after cancelMove() on a living unit its path is empty, its
\* waypoint index is 0, its movement target is its position, its stuck,
\* progress and standing-still timers are 0 and its state is idle; and every
\* later update of the unit, until a path, a target or an attack target is
\* assigned to it, leaves its position unchanged and its state idle.
C20_CancelMoveAnyTarget ==
    /\ [][\A i \in 1..Len(units) :
            CancelMove(i) /\ isAlive(units[i]) => Cancelled(units'[i])]_vars
    /\ [][\A dt \in DeltaTimes, i \in cancelled :
            Update(dt) /\ Value(called').who = {i} =>
                /\ units'[i].x = units[i].x
                /\ units'[i].y = units[i].y
                /\ units'[i].state = "idle"]_vars

\* C20: after cancelMove() on a living unit its path is empty, its waypoint
\* index is 0, its movement target is its position, its stuck, progress and
\* standing-still timers are 0 and its state is idle; and every later step,
\* until a path, a target or an attack target is assigned to the unit, leaves
\* it in that condition and at its position, provided the unit is not killed
\* and holds no living attack target before the step.
C20_CancelMove ==
    /\ [][\A i \in 1..Len(units) :
            CancelMove(i) /\ isAlive(units[i]) => Cancelled(units'[i])]_vars
    /\ [][\A i \in cancelled \cap cancelled' :
            (/\ Cancelled(units[i])
             /\ ~hasValidAttackTarget(units, units[i])
             /\ isAlive(units'[i])) =>
                /\ Cancelled(units'[i])
                /\ units'[i].x = units[i].x
                /\ units'[i].y = units[i].y]_vars

\* A unit that walked away from where it started is updated after its move
\* was cancelled, and stays where the cancellation left it.
C20_Witness ==
    /\ called # Null
    /\ Value(called).op = "update"
    /\ Value(called).who = {1}
    /\ 1 \in cancelled
    /\ Cancelled(units[1])
    /\ units[1].x # 25 * PerPixel

\* C21: Dead is terminal: no step (update, setPath, setTarget, cancelMove,
\* setAttackTarget, takeDamage, heal, a move order) changes the state of a
\* dead unit to anything but dead, and none changes its position.
C21_DeadIsTerminal ==
    [][\A i \in 1..Len(units) :
          units[i].state = "dead" =>
              /\ units'[i].state = "dead"
              /\ units'[i].x = units[i].x
              /\ units'[i].y = units[i].y]_vars

\* The acceptance test of a position (x, y) for the unit at index i among the
\* units us: the center and the 8 ring points are on walkable tiles and every
\* other living unit is at least the two collision radii away.
Acceptable(us, i, x, y) ==
    /\ \A p \in {<<0, 0>>, <<1700, 0>>, <<1202, 1202>>, <<0, 1700>>, <<-1202, 1202>>,
                 <<-1700, 0>>, <<-1202, -1202>>, <<0, -1700>>, <<1202, -1202>>} :
           LET tile == worldToGrid(x + (p[1] * PerPixel) \div 100,
                                   y + (p[2] * PerPixel) \div 100)
           IN  isWalkable(tile.x, tile.y)
    /\ \A j \in 1..Len(us) :
           j # i /\ isAlive(us[j]) =>
               DistanceSquared(Point(x, y), us[j]) >= PixelsSquared(2 * collisionRadius)

\* C22 as stated: whenever an update changes the position of a unit, the
\* position it commits passes the acceptance test at that moment, for free
\* moves, slides and the final approach to the movement target alike.
C22_CommitsAcceptableAlways ==
    [][\A i \in 1..Len(units) :
          (/\ Value(called').op = "update"
           /\ Value(called').who = {i}
           /\ <<units'[i].x, units'[i].y>> # <<units[i].x, units[i].y>>) =>
              Acceptable(units, i, units'[i].x, units'[i].y)]_vars

\* C22: whenever an update changes the position of a unit whose movement
\* target is more than 1 pixel away, the position it commits passes the
\* acceptance test at that moment; a unit within 1 pixel of its movement
\* target is put on the target.
C22_CommitsAcceptable ==
    [][\A i \in 1..Len(units) :
          (/\ Value(called').op = "update"
           /\ Value(called').who = {i}
           /\ <<units'[i].x, units'[i].y>> # <<units[i].x, units[i].y>>) =>
              IF DistanceSquared(units[i], Point(units'[i].targetX, units'[i].targetY))
                     > PixelsSquared(1)
              THEN Acceptable(units, i, units'[i].x, units'[i].y)
              ELSE /\ units'[i].x = units'[i].targetX
                   /\ units'[i].y = units'[i].targetY]_vars

\* An update has moved unit 1 away from where it started, towards a target
\* that is still more than 1 pixel away.
C22_Witness ==
    /\ called # Null
    /\ Value(called).op = "update"
    /\ Value(called).who = {1}
    /\ units[1].state = "walking"
    /\ units[1].x # 25 * PerPixel
    /\ DistanceSquared(units[1], Point(units[1].targetX, units[1].targetY)) > PixelsSquared(1)

\* The collision circles of the living units of us do not overlap pairwise.
NonOverlapping(us) ==
    \A i, j \in 1..Len(us) :
        i < j /\ isAlive(us[i]) /\ isAlive(us[j]) =>
            DistanceSquared(us[i], us[j]) >= PixelsSquared(2 * collisionRadius)

\* C23 as stated: when the living units have pairwise non-overlapping
\* collision circles, the update of a unit that follows a path leaves the
\* collision circles of the living units pairwise non-overlapping.
C23_NeverOverlapping ==
    [][\A i \in 1..Len(units) :
          (/\ Value(called').op = "update"
           /\ Value(called').who = {i}
           /\ units[i].path # <<>>
           /\ NonOverlapping(units)) => NonOverlapping(units')]_vars

\* C23: when the living units have pairwise non-overlapping collision
\* circles, the update of a unit leaves them pairwise non-overlapping, unless
\* the update puts a unit that is within 1 pixel of its movement target on
\* the target.
C23_NonOverlapping ==
    [][\A i \in 1..Len(units) :
          (/\ Value(called').op = "update"
           /\ Value(called').who = {i}
           /\ NonOverlapping(units)
           /\ \/ <<units'[i].x, units'[i].y>> = <<units[i].x, units[i].y>>
              \/ DistanceSquared(units[i], Point(units'[i].targetX, units'[i].targetY))
                     > PixelsSquared(1)) => NonOverlapping(units')]_vars

\* An update has moved unit 1, which follows a path, within the separation
\* radius of the living unit 2, and the two collision circles do not overlap.
C23_Witness ==
    /\ called # Null
    /\ Value(called).op = "update"
    /\ Value(called).who = {1}
    /\ units[1].path # <<>>
    /\ <<units[1].x, units[1].y>> # <<25 * PerPixel, 25 * PerPixel>>
    /\ isAlive(units[1]) /\ isAlive(units[2])
    /\ DistanceSquared(units[1], units[2]) < PixelsSquared(3 * collisionRadius)
    /\ NonOverlapping(units)

\* C24: two living units ordered to the same destination on a field without
\* obstacles eventually both end: from some frame on, for ever, both have no
\* path, the next frame moves neither, and both are within acceptableRange
\* (50 pixels) of the destination.
C24_BothEnd ==
    <>[](commands = 1 =>
            /\ \A i \in 1..Len(units) :
                   /\ units[i].path = <<>>
                   /\ DistanceSquared(units[i], goalWorld) <= PixelsSquared(acceptableRange)
            /\ LET next == forEachUpdate(units, 1, FrameDelta)
               IN  \A i \in 1..Len(units) :
                       next[i].x = units[i].x /\ next[i].y = units[i].y)

\* Both units have ended after frames that moved them: neither has a path,
\* the next frame moves neither, the first stands on the destination and the
\* second has stopped short of it, within acceptableRange.
C24_Witness ==
    /\ called # Null
    /\ Value(called).op = "update"
    /\ \A i \in 1..Len(units) : units[i].path = <<>>
    /\ DistanceSquared(units[1], goalWorld) = 0
    /\ DistanceSquared(units[2], goalWorld) > PixelsSquared(1)
    /\ DistanceSquared(units[2], goalWorld) <= PixelsSquared(acceptableRange)
    /\ LET next == forEachUpdate(units, 1, FrameDelta)
       IN  \A i \in 1..Len(units) : next[i].x = units[i].x /\ next[i].y = units[i].y

\* C25: once a tile is blocked, a unit that follows a path does not keep the
\* same active waypoint for ever: from every state in which the first unit
\* has a path and its waypoint index is k, a state is reached in which it has
\* no path or its waypoint index is not k.
C25_WaypointLeft ==
    \A k \in 0..1 :
        (Blocked(tiles) # {} /\ units[1].path # <<>> /\ units[1].currentWaypointIndex = k)
            ~> (units[1].path = <<>> \/ units[1].currentWaypointIndex # k)

\* A tile is blocked and the first unit has passed on to its second waypoint
\* without having come within 2 pixels of the first.
C25_Witness ==
    /\ Blocked(tiles) # {}
    /\ called # Null
    /\ Value(called).op = "update"
    /\ Len(units[1].path) = 2
    /\ units[1].currentWaypointIndex = 1
    /\ DistanceSquared(units[1], units[1].path[1]) > PixelsSquared(2)

\* C26: for every tile and every positive tile size, converting the tile to
\* world coordinates and back gives the tile; converting a position to its
\* tile and back gives the center of the tile that contains the position: a
\* point half a tile right of and below a multiple of the tile size, with the
\* position in the half-open square of one tile around it.  The results the
\* grid's own calls returned agree, and the calls leave the grid as it was
\* constructed.
TileCenterAround(side, center, p) ==
    /\ (center.x - side \div 2) % side = 0
    /\ (center.y - side \div 2) % side = 0
    /\ center.x - side \div 2 <= p.x /\ p.x < center.x + side \div 2
    /\ center.y - side \div 2 <= p.y /\ p.y < center.y + side \div 2

C26_RoundTrip ==
    /\ \A side \in TileSizes :
           LET center == gridToWorldOf(side, start.x, start.y)
               tile == worldToGridOf(side, startWorld.x, startWorld.y)
           IN  /\ worldToGridOf(side, center.x, center.y) = start
               /\ TileCenterAround(side, gridToWorldOf(side, tile.x, tile.y), startWorld)
    /\ (called # Null /\ Value(called).op = "gridToWorld")
           => worldToGrid(goalWorld.x, goalWorld.y) = start
    /\ (called # Null /\ Value(called).op = "worldToGrid")
           => TileCenterAround(tileSize, gridToWorld(goal.x, goal.y), startWorld)
    /\ called # Null => tiles = NewTiles(cols, rows)

\* A position left of the grid and on a tile border was converted, after a
\* tile above the grid.
C26_Witness ==
    /\ called # Null
    /\ Value(called).op = "worldToGrid"
    /\ startWorld = Point(-5000, 4999)
    /\ goal = Tile(-1, 0)
    /\ start = Tile(40, -2)
    /\ goalWorld = Point(40 * tileSize + tileSize \div 2, -2 * tileSize + tileSize \div 2)

\* C27: findNearestWalkable returns the target itself when the target is
\* walkable; otherwise it returns a walkable tile such that no walkable tile
\* is closer to the target; and it returns none only when the grid has no
\* walkable tile at all, for targets in and outside the grid.
C27_NearestWalkable ==
    (called # Null /\ Value(called).op = "findNearestWalkable") =>
        LET walkable == {t \in GridTiles : isWalkable(t.x, t.y)}
        IN  /\ isWalkable(start.x, start.y) => result = Some(start)
            /\ result # Null =>
                   /\ Value(result) \in walkable
                   /\ \A t \in walkable :
                          DistanceSquared(start, Value(result)) <= DistanceSquared(start, t)
            /\ result = Null => walkable = {}

\* C28: the heuristic findPath uses is admissible for each movement model:
\* the h of every node a search created (Euclidean distance to the goal with
\* diagonal movement, Manhattan distance without) never exceeds the least
\* cost of a path from the node's tile to the goal under the step costs
\* findPath charges.
C28_Admissible ==
    \A key \in DOMAIN nodes :
        nodes[key].h <= MinCost(Tile(nodes[key].x, nodes[key].y), goal, diagonal)

\* The cell nearest to from + (to - from) * i / steps on one axis, the upper
\* one of two equally near.
NearestCell(from, to, i, steps) ==
    CHOOSE c \in (from - Abs(to - from) - 1)..(from + Abs(to - from) + 1) :
        LET twice == 2 * (steps * c - (from * steps + (to - from) * i))
        IN  -steps < twice /\ twice <= steps

\* The cells sampled between tiles a and b for i = first..steps.
SampledCells(a, b, first) ==
    LET steps == Max(Abs(b.x - a.x), Abs(b.y - a.y))
    IN  {Tile(NearestCell(a.x, b.x, i, steps), NearestCell(a.y, b.y, i, steps)) :
             i \in first..steps}

\* smoothPath was called on three tiles a, b, c, and so tested the line of
\* sight from a to c once: it returned <<a, c>> when the test passed.
SightTested ==
    /\ simplified # Null
    /\ Value(simplified).by = "smoothPath"
    /\ Len(Value(simplified).of) = 3

SightPassed == Len(Value(simplified).to) = 2

\* C29 as stated: the line of sight between cells a and b passes if and only
\* if every one of the steps + 1 cells sampled for i = 0..steps, both ends
\* included, is walkable, and always for a zero-distance pair.
C29_LineOfSightBothEnds ==
    SightTested =>
        LET a == Value(simplified).of[1]
            b == Value(simplified).of[3]
        IN  SightPassed <=>
                (a = b \/ \A c \in SampledCells(a, b, 0) : isWalkable(c.x, c.y))

\* C29: the line of sight between cells a and b, with steps = max(|dx|,|dy|),
\* passes if and only if every one of the steps cells sampled for
\* i = 1..steps, b included and a itself not, is walkable; a zero-distance
\* pair always passes.
C29_LineOfSight ==
    SightTested =>
        LET a == Value(simplified).of[1]
            b == Value(simplified).of[3]
        IN  SightPassed <=>
                (a = b \/ \A c \in SampledCells(a, b, 1) : isWalkable(c.x, c.y))

\* A line of sight from a blocked tile passed over a cell sampled halfway
\* between two rows.
C29_Witness ==
    /\ SightTested
    /\ SightPassed
    /\ Value(simplified).of[1] = Tile(0, 0)
    /\ Value(simplified).of[3] = Tile(2, 1)
    /\ ~isWalkable(0, 0)
    /\ ~isWalkable(1, 0)

\* optimizePixelPath was called on a path of at least 3 waypoints.
OptimizeCalled ==
    /\ simplified # Null
    /\ Value(simplified).by = "optimizePixelPath"
    /\ Len(Value(simplified).of) >= 3

\* The heading from a to b differs from the heading from c to d by more than
\* 30 degrees: the cosine of the angle between them is below sqrt(3)/2.  The
\* waypoints handed over lie on multiples of 5 pixels; a segment of length 0
\* has the heading of the x axis (Math.atan2(0, 0) = 0).
HeadingsDiffer(a, b, c, d) ==
    LET unit == 5 * PerPixel
        zero1 == a = b
        zero2 == c = d
        x1 == IF zero1 THEN 1 ELSE (b.x - a.x) \div unit
        y1 == IF zero1 THEN 0 ELSE (b.y - a.y) \div unit
        x2 == IF zero2 THEN 1 ELSE (d.x - c.x) \div unit
        y2 == IF zero2 THEN 0 ELSE (d.y - c.y) \div unit
        dot == x1 * x2 + y1 * y2
    IN  dot < 0 \/ 4 * dot * dot < 3 * (x1 * x1 + y1 * y1) * (x2 * x2 + y2 * y2)

\* The start lies more than 30% of a tile length from the center of its tile.
StartsOffCenter(path) ==
    LET center == Point(path[1].x - (path[1].x % tileSize) + tileSize \div 2,
                        path[1].y - (path[1].y % tileSize) + tileSize \div 2)
    IN  100 * DistanceSquared(center, path[1]) > 9 * tileSize * tileSize

\* The waypoints the ordinary greedy scan keeps after waypoint from.
GreedyScan(path, from, maxSegmentTiles) ==
    LET kept == OptimizeFrom(path, from, maxSegmentTiles)
    IN  [k \in 1..Len(kept) |-> path[kept[k]]]

\* C30 as stated: for a path of at least 3 waypoints, when the start lies
\* more than 30% of a tile from its tile's center and the heading of
\* path[0] -> path[1] differs from the heading of path[1] -> path[2] by more
\* than 30 degrees, path[1] is kept; otherwise path[1] is left to the
\* ordinary greedy scan.
C30_KeepsFirstBySegments ==
    OptimizeCalled =>
        LET path == Value(simplified).of
            cap == Value(simplified).cap
        IN  Value(simplified).to =
                IF StartsOffCenter(path) /\ HeadingsDiffer(path[1], path[2], path[2], path[3])
                THEN <<path[1], path[2]>> \o GreedyScan(path, 2, cap)
                ELSE <<path[1]>> \o GreedyScan(path, 1, cap)

\* C30: for a path of at least 3 waypoints, when the start lies more than
\* 30% of a tile from its tile's center and the heading from path[0] to
\* path[1] differs from the heading from path[0] to path[2] by more than
\* 30 degrees, path[1] is kept and the greedy scan goes on from it; otherwise
\* path[1] is left to the ordinary greedy scan from path[0].
C30_KeepsFirst ==
    OptimizeCalled =>
        LET path == Value(simplified).of
            cap == Value(simplified).cap
        IN  Value(simplified).to =
                IF StartsOffCenter(path) /\ HeadingsDiffer(path[1], path[2], path[1], path[3])
                THEN <<path[1], path[2]>> \o GreedyScan(path, 2, cap)
                ELSE <<path[1]>> \o GreedyScan(path, 1, cap)

\* The first intermediate waypoint was kept although the greedy scan from
\* the start reaches the waypoint after it.
C30_Witness ==
    /\ OptimizeCalled
    /\ Len(Value(simplified).of) = 3
    /\ StartsOffCenter(Value(simplified).of)
    /\ Extends(Value(simplified).of[1], Value(simplified).of[3], Value(simplified).cap)
    /\ Value(simplified).to = Value(simplified).of
    /\ Value(simplified).of[2] # Value(simplified).of[3]

\* A frame has run: every unit was updated once.
FrameRan == called' # Null /\ Value(called').op = "update"

\* The unit u will take an advance step on a path: it lives, has a path and
\* no attack target.
OnPath(u) == isAlive(u) /\ u.path # <<>> /\ u.attackTarget = Null

\* The unit u is at most 0.5 pixel from its last recorded check position.
StandsStill(u) == 4 * DistanceSquared(u.lastMovementCheck, u) <= PixelsSquared(1)

\* The next frame takes the standing-still timer of u over its threshold.
StandingStillFires(u) ==
    StandsStill(u) /\ u.standingStillTimer + FrameDelta > standingStillThreshold

\* The unit u is within the acceptable range of the last waypoint of its path.
NearFinalWaypoint(u) ==
    DistanceSquared(u, u.path[Len(u.path)]) <= PixelsSquared(acceptableRange)

Heading(u) ==
    LET standing == IF Len(u.path) > 0 THEN checkStandingStill(u, FrameDelta) ELSE u
    IN  IF Len(standing.path) > 0 THEN followPath(standing) ELSE standing

\* The desired move of a unit v heading for its target, the push of its
\* neighbors added, and the candidate destination it gives.
DesiredMove(us, i, v) ==
    LET dx == v.targetX - v.x
        dy == v.targetY - v.y
        distance == FloorSqrt(dx * dx + dy * dy)
        separation == applySeparation(us, i)
        moveX == IF distance = 0 THEN 0
                 ELSE Round(dx * speed * PerPixel, distance) + separation.x
        moveY == IF distance = 0 THEN 0
                 ELSE Round(dy * speed * PerPixel, distance) + separation.y
        close == dx * dx + dy * dy < PixelsSquared(speed)
    IN  [x |-> moveX, y |-> moveY, distance |-> distance,
         far |-> dx * dx + dy * dy > PixelsSquared(1),
         newX |-> IF close THEN v.targetX ELSE v.x + moveX,
         newY |-> IF close THEN v.targetY ELSE v.y + moveY]

\* The recovery candidates of a rejected step in their fixed order: full
\* horizontal-only slide, full vertical-only slide, half of the desired move,
\* then a step of full speed -0.3, +0.3, -0.6 and +0.6 rad off the heading of
\* the desired move (cosines and sines in 1/10000).
RecoveryCandidates(v, m) ==
    LET mx == IF m.x = 0 /\ m.y = 0 THEN 1 ELSE m.x
        length == FloorSqrt(10000 * (mx * mx + m.y * m.y))
        Off(c, sn) ==
            Point(v.x + Round(speed * PerPixel * (c * mx - sn * m.y), 100 * length),
                  v.y + Round(speed * PerPixel * (sn * mx + c * m.y), 100 * length))
    IN  <<Point(m.newX, v.y), Point(v.x, m.newY),
          Point(v.x + Round(m.x, 2), v.y + Round(m.y, 2)),
          Off(9553, -2955), Off(9553, 2955), Off(8253, -5646), Off(8253, 5646)>>

\* The candidate destination of the first unit is rejected in the next frame.
Rejected ==
    /\ isAlive(units[1]) /\ units[1].attackTarget = Null
    /\ DesiredMove(units, 1, Heading(units[1])).far
    /\ ~canMoveTo(units, 1, DesiredMove(units, 1, Heading(units[1])).newX,
                  DesiredMove(units, 1, Heading(units[1])).newY)

\* C32: when the candidate destination is rejected, the unit moves to the
\* first acceptable candidate in the order horizontal-only slide,
\* vertical-only slide, half step, deflections -0.3, +0.3, -0.6, +0.6 rad; if
\* none is acceptable, its position is unchanged, its state is Idle and, on a
\* path, its stuck timer grows by dt, the waypoint being skipped once the
\* timer exceeds 500 ms.
C32_RecoveryOrder ==
    [][FrameRan /\ Rejected =>
        LET v == Heading(units[1])
            after == units'[1]
            candidates == RecoveryCandidates(v, DesiredMove(units, 1, v))
            acceptable == {k \in 1..Len(candidates) :
                              canMoveTo(units, 1, candidates[k].x, candidates[k].y)}
        IN  IF acceptable # {}
            THEN LET first == CHOOSE k \in acceptable : \A l \in acceptable : k <= l
                 IN  /\ after.x = candidates[first].x
                     /\ after.y = candidates[first].y
                     /\ after.state = "walking"
            ELSE /\ after.x = units[1].x /\ after.y = units[1].y
                 /\ after.state = "idle"
                 /\ v.path # <<>> =>
                        IF v.stuckTimer + FrameDelta > stuckThreshold
                        THEN after.stuckTimer = 0
                             /\ \/ /\ after.path = v.path
                                    /\ after.currentWaypointIndex = v.currentWaypointIndex + 1
                                 \/ /\ after.path = <<>>
                                    /\ v.currentWaypointIndex + 1 = Len(v.path)
                        ELSE /\ after.stuckTimer = v.stuckTimer + FrameDelta
                             /\ after.path = v.path
                             /\ after.currentWaypointIndex = v.currentWaypointIndex]_vars

\* The first unit, on a path, is about to be rejected with its horizontal and
\* vertical slides, its half step and two deflections rejected too.
C32_Witness ==
    /\ commands = 1
    /\ Rejected
    /\ units[1].path # <<>>
    /\ LET v == Heading(units[1])
           candidates == RecoveryCandidates(v, DesiredMove(units, 1, v))
       IN  /\ \A k \in 1..5 : ~canMoveTo(units, 1, candidates[k].x, candidates[k].y)
           /\ canMoveTo(units, 1, candidates[6].x, candidates[6].y)

\* The candidate destination of the first unit is rejected in the next frame
\* and a recovery candidate is acceptable: the unit slides, on a path.
Slides ==
    /\ Rejected
    /\ Heading(units[1]).path # <<>>
    /\ LET v == Heading(units[1])
           candidates == RecoveryCandidates(v, DesiredMove(units, 1, v))
       IN  \E k \in 1..Len(candidates) : canMoveTo(units, 1, candidates[k].x, candidates[k].y)

\* The slide of the next frame makes no progress: the distance to the current
\* waypoint is not more than 0.5 pixel below the last recorded distance.
NoProgress ==
    LET v == Heading(units[1])
    IN  /\ v.lastDistanceToWaypoint # Infinity
        /\ 2 * (v.lastDistanceToWaypoint - DesiredMove(units, 1, v).distance) <= PerPixel

\* C33 as stated: when the slides of a unit on a path have made no progress
\* for more than 500 ms, the waypoint index is advanced by exactly one and the
\* progress tracking is reset.
C33_StuckProgressAnyWaypoint ==
    [][FrameRan /\ Slides /\ NoProgress
          /\ Heading(units[1]).progressTimer + FrameDelta > stuckThreshold =>
        /\ units'[1].path = Heading(units[1]).path
        /\ units'[1].currentWaypointIndex = Heading(units[1]).currentWaypointIndex + 1
        /\ units'[1].progressTimer = 0
        /\ units'[1].lastDistanceToWaypoint = Infinity]_vars

\* C33: a slide of a unit on a path records the distance to the current
\* waypoint when none is recorded; a slide that brings the distance more than
\* 0.5 pixel below the recorded one records it and resets the progress and
\* stuck timers; any other slide adds dt to the progress timer, and the slide
\* that takes it over 500 ms resets the progress tracking and skips the
\* waypoint: the index advances by exactly one, or the path is cleared when
\* the waypoint was the last.  Whether the slides moved the unit plays no part.
C33_StuckProgress ==
    [][FrameRan /\ Slides =>
        LET v == Heading(units[1])
            after == units'[1]
            distance == DesiredMove(units, 1, v).distance
        IN  IF v.lastDistanceToWaypoint = Infinity
            THEN /\ after.lastDistanceToWaypoint = distance
                 /\ after.progressTimer = 0
                 /\ after.path = v.path
                 /\ after.currentWaypointIndex = v.currentWaypointIndex
            ELSE IF ~NoProgress
            THEN /\ after.lastDistanceToWaypoint = distance
                 /\ after.progressTimer = 0
                 /\ after.stuckTimer = 0
                 /\ after.path = v.path
                 /\ after.currentWaypointIndex = v.currentWaypointIndex
            ELSE IF v.progressTimer + FrameDelta <= stuckThreshold
            THEN /\ after.progressTimer = v.progressTimer + FrameDelta
                 /\ after.lastDistanceToWaypoint = v.lastDistanceToWaypoint
                 /\ after.path = v.path
                 /\ after.currentWaypointIndex = v.currentWaypointIndex
            ELSE /\ after.progressTimer = 0
                 /\ after.stuckTimer = 0
                 /\ after.lastDistanceToWaypoint = Infinity
                 /\ IF v.currentWaypointIndex + 1 < Len(v.path)
                    THEN /\ after.path = v.path
                         /\ after.currentWaypointIndex = v.currentWaypointIndex + 1
                    ELSE /\ after.path = <<>>
                         /\ after.currentWaypointIndex = 0]_vars

\* The next slide of the first unit moves it (its own position is not
\* among the first two candidates), takes its progress timer over 500 ms and
\* skips a waypoint.
C33_Witness ==
    /\ Slides
    /\ NoProgress
    /\ Heading(units[1]).progressTimer + FrameDelta > stuckThreshold
    /\ LET v == Heading(units[1])
           candidates == RecoveryCandidates(v, DesiredMove(units, 1, v))
       IN  \A k \in 1..2 :
               \/ ~canMoveTo(units, 1, candidates[k].x, candidates[k].y)
               \/ candidates[k] # Point(units[1].x, units[1].y)

MovementStep(i) ==
    /\ FrameRan
    /\ Value(called').who = {i}
    /\ units[i].state # "dead"
    /\ ~hasValidAttackTarget(units, units[i])

\* C35: a movement step of one unit (an update with no valid attack target)
\* changes no field of any other unit and no tile of the grid, whatever
\* branch of move it takes.
C35_MoveTouchesOnlyItself ==
    [][\A i \in 1..Len(units) :
           MovementStep(i) =>
               /\ \A j \in 1..Len(units) : j # i => units'[j] = units[j]
               /\ Len(units') = Len(units)
               /\ tiles' = tiles /\ cols' = cols /\ rows' = rows]_vars

\* The first unit has been pushed off its line by the second one during a
\* movement step towards a target.
C35_Witness ==
    /\ called # Null /\ Value(called).op = "update" /\ Value(called).who = {1}
    /\ units[1].state = "walking"
    /\ units[1].attackTarget = Null
    /\ isAlive(units[2])
    /\ units[1].y # 25 * PerPixel
    /\ DistanceSquared(units[1], units[2]) < PixelsSquared(3 * collisionRadius)


\* C36: findPath is complete: a call for a walkable start and a walkable goal
\* returns null only when no path leads from start to goal in the graph of
\* getNeighbors, and then with its open list exhausted and its count below
\* the cap 2 x cols x rows; the count never exceeds the number of tiles,
\* since every iteration but the one that selects the goal closes one more
\* tile.
C36_Complete ==
    /\ (pc = "done" /\ result = Null
            /\ isWalkable(start.x, start.y) /\ isWalkable(goal.x, goal.y)) =>
           /\ MinCost(start, goal, diagonal) = Unreachable
           /\ openList = <<>>
           /\ iterations < maxIterations
    /\ (pc \in {"loop", "done"}) =>
           /\ iterations <= cols * rows
           /\ Cardinality(closedSet) \in {iterations - 1, iterations}

\* A call that returned a path around blocked tiles after at least as many
\* iterations as the grid has columns and rows together.
C36_Witness ==
    /\ Returned
    /\ Blocked(tiles) # {}
    /\ Len(Value(result)) >= 5
    /\ iterations >= cols + rows


\* A step that assigns a path anew: setPath or a move order.
AssignsPath ==
    called' # Null /\ Value(called').op \in {"setPath", "moveUnitsToPosition"}

\* C37: in every state reached by setPath, setTarget, cancelMove,
\* setAttackTarget, move orders and updates, the waypoint index of every unit
\* is at least 0 and at most the length of its path (0 when the path is
\* empty), and a step that leaves a unit its path and is no new assignment
\* does not lower its index.
C37_IndexInRange ==
    /\ [](\A i \in 1..Len(units) :
              /\ units[i].currentWaypointIndex >= 0
              /\ units[i].currentWaypointIndex <= Len(units[i].path))
    /\ [][\A i \in 1..Len(units) :
              (~AssignsPath /\ units[i].path # <<>> /\ units'[i].path = units[i].path) =>
                  units'[i].currentWaypointIndex >= units[i].currentWaypointIndex]_vars

\* An update has taken a unit past the last waypoint of its path: its index
\* is the length of the path.
C37_Witness ==
    /\ called # Null /\ Value(called).op = "update"
    /\ \E i \in Value(called).who :
           /\ units[i].path # <<>>
           /\ units[i].currentWaypointIndex = Len(units[i].path)


\* A frame would leave the unit at index i where it is.
Rests(i) ==
    \E next \in {forEachUpdate(units, 1, FrameDelta)} :
        next[i].x = units[i].x /\ next[i].y = units[i].y

\* The order has been given, and the first unit has no path left and no
\* attack target.
PathEmptied ==
    /\ commands = 1
    /\ units[1].path = <<>>
    /\ units[1].attackTarget = Null

\* C38: once the path of a unit has become empty and the unit has no attack
\* target, on a fixed grid with a stationary sibling and no further command,
\* the frames bring the unit to rest: from some frame on its position does
\* not change and its state is idle.
C38_EventuallyIdle ==
    [](PathEmptied => <>[](Rests(1) /\ units[1].state = "idle"))


\* The unit at index i lives and holds a living attack target that is
\* farther away than the attack range.
ClosingIn(i) ==
    /\ isAlive(units[i])
    /\ hasValidAttackTarget(units, units[i])
    /\ DistanceSquared(units[i], units[Value(units[i].attackTarget)])
           > PixelsSquared(attackRange)

\* C39: an update of a living unit whose living attack target is farther
\* away than the attack range keeps the attack target of the unit.
C39_AttackPersists ==
    [][\A i \in 1..Len(units) :
           (FrameRan /\ Value(called').who = {i} /\ ClosingIn(i)) =>
               units'[i].attackTarget = units[i].attackTarget]_vars


\* C40: every segment between consecutive waypoints of a path findPixelPath
\* returns, the first one from the start pixel and the last one to the goal
\* pixel included, passes hasLineOfSightWorld: no point sampled along it lies
\* in an unwalkable tile.
C40_SegmentsClear ==
    (pixelPath # Null /\ Value(pixelPath) # Null) =>
        LET path == Value(Value(pixelPath))
        IN  \A k \in 1..(Len(path) - 1) : hasLineOfSightWorld(path[k], path[k + 1])


====
